---- MODULE Spec2Model ----
(***************************************************************************)
(* Auto-Delete-Media: a Telegram bot that deletes media messages after a   *)
(* per-chat delay.  The model follows src/index.js lines 1-405 (the        *)
(* variant of the bot that has the whitelist): the three in-memory maps,   *)
(* the five configuration commands, processMedia and the one-shot timers   *)
(* it arms.                                                                *)
(*                                                                         *)
(* JavaScript strings are sequences of one-character strings, so that the  *)
(* regular expressions and the conversions of the source are computed,     *)
(* not assumed.  A millisecond count that may be null is a sequence of     *)
(* length 0 (null) or 1 (the number).                                      *)
(***************************************************************************)
EXTENDS Integers, Sequences, FiniteSets, TLC

(***************************************************************************)
(* Bounds of the model.                                                    *)
(***************************************************************************)
MaxUpdates == 3
\* the longest text handed to the Duration Codec on its own
MaxDurationLen == 3

(***************************************************************************)
(* JavaScript values.                                                      *)
(***************************************************************************)
null == <<"null">>
undefined == <<"undefined">>

\* !x for a value that is a string, null or undefined
Falsy(x) == x = null \/ x = undefined \/ x = <<>>
Truthy(x) == ~Falsy(x)

\* a number-or-null: <<>> is null, <<n>> is the number n
NullMs == <<>>
Ms(n) == <<n>>
\* truthiness of a number-or-null: null and 0 are falsy
TruthyMs(r) == Len(r) = 1 /\ r[1] # 0

Digits == {"0", "1", "2", "3", "4", "5", "6", "7", "8", "9"}
LowerLetters == {"a", "b", "c", "d", "e", "f", "g", "h", "i", "j", "k", "l", "m",
                 "n", "o", "p", "q", "r", "s", "t", "u", "v", "w", "x", "y", "z"}
UpperLetters == {"A", "B", "C", "D", "E", "F", "G", "H", "I", "J", "K", "L", "M",
                 "N", "O", "P", "Q", "R", "S", "T", "U", "V", "W", "X", "Y", "Z"}
UpperSeq == <<"A", "B", "C", "D", "E", "F", "G", "H", "I", "J", "K", "L", "M",
              "N", "O", "P", "Q", "R", "S", "T", "U", "V", "W", "X", "Y", "Z">>
LowerSeq == <<"a", "b", "c", "d", "e", "f", "g", "h", "i", "j", "k", "l", "m",
              "n", "o", "p", "q", "r", "s", "t", "u", "v", "w", "x", "y", "z">>

\* the characters of the texts of the model
Chars == Digits \cup LowerLetters \cup UpperLetters \cup {" ", ":", "+", "_"}

\* typeof x === 'string': every element is one character
IsString(x) == \A i \in 1..Len(x) : x[i] \in Chars

\* a value that is truthy and not a string
aNumber == <<"number">>

\* \w of a JavaScript regular expression
IsWordChar(ch) == ch \in Digits \cup LowerLetters \cup UpperLetters \cup {"_"}
\* \s, for the characters the model uses
IsSpace(ch) == ch = " "

LowerChar(ch) ==
    IF ch \in UpperLetters
    THEN LowerSeq[CHOOSE i \in 1..26 : UpperSeq[i] = ch]
    ELSE ch

\* String.prototype.toLowerCase
toLowerCase(s) == [i \in 1..Len(s) |-> LowerChar(s[i])]

\* String.prototype.trim
trim(s) ==
    LET idx == {i \in 1..Len(s) : ~IsSpace(s[i])}
    IN  IF idx = {} THEN <<>>
        ELSE LET lo == CHOOSE i \in idx : \A j \in idx : i <= j
                 hi == CHOOSE i \in idx : \A j \in idx : i >= j
             IN  SubSeq(s, lo, hi)

DigitValue(ch) == CHOOSE n \in 0..9 : <<"0", "1", "2", "3", "4", "5", "6", "7", "8", "9">>[n + 1] = ch

\* parseInt / Number of a string of decimal digits
RECURSIVE parseInt(_)
parseInt(ds) ==
    IF ds = <<>> THEN 0
    ELSE 10 * parseInt(SubSeq(ds, 1, Len(ds) - 1)) + DigitValue(ds[Len(ds)])


(***************************************************************************)
(* Duration Codec: parseDurationToMs.                                      *)
(***************************************************************************)
UnitMs(unit) ==
    IF unit = "s" THEN 1000
    ELSE IF unit = "m" THEN 60 * 1000
    ELSE 60 * 60 * 1000

\* a faulty variant: the unit letter is matched without lower-casing the text
parseDurationToMsCaseSensitive(durationStr) ==
    IF Falsy(durationStr) \/ ~IsString(durationStr) THEN NullMs
    ELSE LET s == durationStr
             n == Len(s)
         IN  IF /\ n >= 2
                /\ \A i \in 1..(n - 1) : s[i] \in Digits
                /\ s[n] \in {"s", "m", "h"}
             THEN Ms(parseInt(SubSeq(s, 1, n - 1)) * UnitMs(s[n]))
             ELSE NullMs

\* /^(\d+)([smh])$/ on the lower-cased string; null when it does not match
parseDurationToMs(durationStr) ==
    IF Falsy(durationStr) \/ ~IsString(durationStr) THEN NullMs
    ELSE LET s == toLowerCase(durationStr)
             n == Len(s)
         IN  IF /\ n >= 2
                /\ \A i \in 1..(n - 1) : s[i] \in Digits
                /\ s[n] \in {"s", "m", "h"}
             THEN Ms(parseInt(SubSeq(s, 1, n - 1)) * UnitMs(s[n]))
             ELSE NullMs

(***************************************************************************)
(* The clock.  now is Date.now(): milliseconds since 00:00 UTC of day 0.   *)
(***************************************************************************)
getCurrentTimeInGMT6(nowMs) ==
    LET utcHours == (nowMs \div 3600000) % 24
    IN  [hours |-> (utcHours + 6) % 24, minutes |-> (nowMs \div 60000) % 60]

\* the instant at which the GMT+6 wall clock shows h:m on the given day
LocalInstant(day, h, m) == (((day * 24 + h) - 6) * 60 + m) * 60000

(***************************************************************************)
(* "HH:MM" texts.                                                          *)
(***************************************************************************)
\* /^\d{2}:\d{2}$/.test(text)
IsHHMM(text) ==
    /\ Len(text) = 5
    /\ text[1] \in Digits /\ text[2] \in Digits
    /\ text[3] = ":"
    /\ text[4] \in Digits /\ text[5] \in Digits

\* const [h, m] = text.split(':').map(Number); h * 60 + m
TimeInMinutes(text) ==
    LET colon == CHOOSE i \in 1..Len(text) : text[i] = ":" /\ \A j \in 1..(i - 1) : text[j] # ":"
        h == parseInt(SubSeq(text, 1, colon - 1))
        m == parseInt(SubSeq(text, colon + 1, Len(text)))
    IN  h * 60 + m

(***************************************************************************)
(* Schedule Window Evaluator: the isActiveSchedule computation of          *)
(* processMedia.  endTimeInMinutesGMT6 is <<>> for Infinity, <<e>> else.    *)
(***************************************************************************)
Infinity == <<>>

endTimeInMinutesGMT6(schedule) ==
    IF Truthy(schedule.endTime) THEN <<TimeInMinutes(schedule.endTime)>> ELSE Infinity

\* a faulty variant: a window whose end precedes its start is not wrapped
isActiveScheduleNoWrap(schedule, nowMs) ==
    LET t == getCurrentTimeInGMT6(nowMs)
        current == t.hours * 60 + t.minutes
        start == TimeInMinutes(schedule.startTime)
        end == endTimeInMinutesGMT6(schedule)
        currentLtEnd == IF end = Infinity THEN TRUE ELSE current < end[1]
    IN  current >= start /\ currentLtEnd

\* a faulty variant: the end of a same-day window is inclusive
isActiveScheduleEndInclusive(schedule, nowMs) ==
    LET t == getCurrentTimeInGMT6(nowMs)
        current == t.hours * 60 + t.minutes
        start == TimeInMinutes(schedule.startTime)
        end == endTimeInMinutesGMT6(schedule)
        startLeEnd == IF end = Infinity THEN TRUE ELSE start <= end[1]
        currentLtEnd == IF end = Infinity THEN TRUE ELSE current < end[1]
        currentLeEnd == IF end = Infinity THEN TRUE ELSE current <= end[1]
    IN  IF startLeEnd
        THEN current >= start /\ currentLeEnd
        ELSE current >= start \/ currentLtEnd

\* a faulty variant: a window whose start equals its end is taken to wrap
isActiveScheduleEqualWraps(schedule, nowMs) ==
    LET t == getCurrentTimeInGMT6(nowMs)
        current == t.hours * 60 + t.minutes
        start == TimeInMinutes(schedule.startTime)
        end == endTimeInMinutesGMT6(schedule)
        startLtEnd == IF end = Infinity THEN TRUE ELSE start < end[1]
        currentLtEnd == IF end = Infinity THEN TRUE ELSE current < end[1]
    IN  IF startLtEnd
        THEN current >= start /\ currentLtEnd
        ELSE current >= start \/ currentLtEnd

isActiveSchedule(schedule, nowMs) ==
    LET t == getCurrentTimeInGMT6(nowMs)
        current == t.hours * 60 + t.minutes
        start == TimeInMinutes(schedule.startTime)
        end == endTimeInMinutesGMT6(schedule)
        startLeEnd == IF end = Infinity THEN TRUE ELSE start <= end[1]
        currentLtEnd == IF end = Infinity THEN TRUE ELSE current < end[1]
    IN  IF startLeEnd
        THEN current >= start /\ currentLtEnd
        ELSE current >= start \/ currentLtEnd

(***************************************************************************)
(* The caption annotation: caption.toLowerCase().match(/(\b\d+[smh]\b)/).  *)
(***************************************************************************)
\* the index after the maximal run of digits that starts at i
RECURSIVE DigitsEnd(_, _)
DigitsEnd(s, i) == IF i <= Len(s) /\ s[i] \in Digits THEN DigitsEnd(s, i + 1) ELSE i

\* does /\b\d+[smh]\b/ match at index i
MatchesAt(s, i) ==
    /\ s[i] \in Digits
    /\ (i = 1 \/ ~IsWordChar(s[i - 1]))
    /\ LET j == DigitsEnd(s, i)
       IN  /\ j <= Len(s)
           /\ s[j] \in {"s", "m", "h"}
           /\ (j = Len(s) \/ ~IsWordChar(s[j + 1]))

\* a faulty variant: the last (rightmost) match, or null
captionDurationMatchLast(s) ==
    LET starts == {i \in 1..Len(s) : MatchesAt(s, i)}
    IN  IF starts = {} THEN null
        ELSE LET i == CHOOSE k \in starts : \A l \in starts : k >= l
             IN  SubSeq(s, i, DigitsEnd(s, i))

\* the first (leftmost) match, or null
captionDurationMatch(s) ==
    LET starts == {i \in 1..Len(s) : MatchesAt(s, i)}
    IN  IF starts = {} THEN null
        ELSE LET i == CHOOSE k \in starts : \A l \in starts : k <= l
             IN  SubSeq(s, i, DigitsEnd(s, i))

(***************************************************************************)
(* Inputs of the model: the chats, the users, the texts users send and     *)
(* the instants at which the clock is observed.                            *)
(***************************************************************************)
Chats == {1}
Users == {1, 2}

\* what the platform answers during one command: the first getChat, then
\* getChatMember, then the getChat the handler repeats when isAdmin said no (the
\* chat's type again, or the call fails).  A call that is not made has no answer.
AuthInputs ==
    {[chat |-> "error", member |-> "unasked", chatAgain |-> "unasked"],
     [chat |-> "private", member |-> "unasked", chatAgain |-> "unasked"]}
    \cup {[chat |-> "group", member |-> r, chatAgain |-> "unasked"] :
             r \in {"creator", "administrator"}}
    \cup {[chat |-> "group", member |-> r, chatAgain |-> again] :
             r \in {"member", "error"}, again \in {"group", "error"}}

\* msg.from.id of a command
CommandUsers == {1}

OFF == <<"o", "f", "f">>
DEFAULT_TIMER_DURATION == <<"1", "5", "m">>

\* match[1] of /\/settimer (.+)/
SetTimerArgs == {OFF, <<"1", "H">>, <<"1", "5", "m">>, <<"0", "s">>}

\* match[1].trim().split(' ') of /\/schedule (.+)/
ScheduleArgs ==
    { << <<"2", "2", ":", "0", "0">>, <<"5", "m">> >>,
      << <<"0", "9", ":", "0", "0">>, <<"5", "M">> >>,
      << <<"2", "2", ":", "0", "0">> >> }

\* match[1] of /\/scheduleoff (.+)/
ScheduleOffArgs ==
    { <<"0", "8", ":", "0", "0">>,
      <<"0", "9", ":", "0", "0">>,
      <<" ", "1", "7", ":", "0", "0">>,
      <<"8", "a", "m">> }

\* msg.caption of a photo or video; undefined when the media has no caption
Captions ==
    { undefined,
      <<"c", "h", "e", "c", "k", " ", "t", "h", "i", "s", " ", "3", "0", "s">>,
      <<"0", "s">>,
      <<"p", "i", "c", ":", "2", "M", " ">>,
      <<"a", "3", "0", "s">> }

\* the instants (GMT+6 wall clock) at which the model observes the clock
StartInstant == LocalInstant(0, 8, 59)
ClockInstants ==
    { LocalInstant(0, 9, 0), LocalInstant(0, 12, 0), LocalInstant(0, 17, 0),
      LocalInstant(0, 23, 0), LocalInstant(1, 3, 0) }

(***************************************************************************)
(* State.                                                                  *)
(***************************************************************************)
VARIABLES
    chatTimers,      \* Map chatId -> duration text | "off"
    chatSchedules,   \* Map chatId -> {startTime, endTime, deleteDuration, timezone}
    chatWhitelists,  \* Map chatId -> Array<userId>
    now,             \* the clock, ms
    timers,          \* the armed setTimeout callbacks of processMedia
    deleteCalls,     \* the bot.deleteMessage calls issued so far, in order
    msg,             \* the media message handled by the step just taken, if any
    processed,       \* processed[messageId]: what processMedia decided for it
    updateCount,     \* updates (commands and media messages) handled so far
    codec,           \* a call of parseDurationToMs on its own: argument and result
    sent,            \* the bot.sendMessage reply of the step just taken, if any
    logged,          \* what the timeout callback of the step just taken logged, if any
    inflight,        \* the command updates whose handler awaits the platform's answer
    ended,           \* the command updates whose handler has ended, where interleavings are followed
    handled,         \* the command update whose handler ended in the step just taken, if followed
    report,          \* the configuration shown by the /status reply of the step just taken, if any
    running          \* the process is running: no rejection has ended it

vars == <<chatTimers, chatSchedules, chatWhitelists, now, timers, deleteCalls,
          msg, processed, updateCount, codec, sent, logged, inflight, ended, handled, report, running>>

config == <<chatTimers, chatSchedules, chatWhitelists>>
media == <<timers, deleteCalls, processed>>

NoMsg == [chatId |-> 0, messageId |-> 0, userId |-> 0, caption |-> undefined]

\* Map.prototype.get
MapGet(map, key) == IF key \in DOMAIN map THEN map[key] ELSE undefined
\* a faulty variant: the stores keep one chat's entry only
MapSetAlone(map, key, value) == (key :> value)

\* Map.prototype.set
MapSet(map, key, value) == (key :> value) @@ map

EmptyMap == <<>>

\* the step just taken sent no reply
NoReply == "none"

\* the step just taken ran no timeout callback
NoLog == [level |-> "none", kind |-> "none", description |-> "none"]

\* no command update was followed to the end of its handler in the step just taken
NoUpdate == <<>>

\* the step just taken sent no /status reply
NoReport == <<>>

\* no call of parseDurationToMs on its own is under way
IdleCodec == [durationStr |-> <<>>, done |-> FALSE, result |-> NullMs]

Init ==
    /\ chatTimers = EmptyMap
    /\ chatSchedules = EmptyMap
    /\ chatWhitelists = EmptyMap
    /\ now = StartInstant
    /\ timers = {}
    /\ deleteCalls = <<>>
    /\ msg = NoMsg
    /\ processed = <<>>
    /\ updateCount = 0
    /\ codec = IdleCodec
    /\ sent = NoReply
    /\ logged = NoLog
    /\ inflight = {}
    /\ ended = {}
    /\ running = TRUE
    /\ handled = NoUpdate
    /\ report = NoReport

(***************************************************************************)
(* Authorization: isAdmin and the guard each command handler opens with.   *)
(***************************************************************************)
\* a faulty variant: every member of the group passes
isAdminAnyMember(chatId, userId, auth) ==
    IF auth.chat = "private" THEN TRUE
    ELSE IF chatId = 0 \/ userId = 0 THEN FALSE
    ELSE IF auth.member = "error" THEN FALSE
    ELSE auth.member \in {"administrator", "creator", "member"}

\* a faulty variant: a membership query that fails lets the actor pass
isAdminFailureAllows(chatId, userId, auth) ==
    IF auth.chat = "private" THEN TRUE
    ELSE IF chatId = 0 \/ userId = 0 THEN FALSE
    ELSE IF auth.member = "error" THEN TRUE
    ELSE auth.member \in {"administrator", "creator"}

\* a faulty variant: the chat's type is not looked at, membership decides
isAdminPrivateAsksMember(chatId, userId, auth) ==
    IF chatId = 0 \/ userId = 0 THEN FALSE
    ELSE IF auth.member = "error" THEN FALSE
    ELSE auth.member \in {"administrator", "creator"}

\* isAdmin(chatId, userId), given what getChat and getChatMember answer
isAdmin(chatId, userId, auth) ==
    IF auth.chat = "private" THEN TRUE
    ELSE IF chatId = 0 \/ userId = 0 THEN FALSE
    ELSE IF auth.member = "error" THEN FALSE
    ELSE auth.member \in {"administrator", "creator"}

\* the handler goes on past its guard; a getChat that fails rejects the handler
Authorized(chatId, userId, auth) ==
    /\ auth.chat # "error"
    /\ \/ isAdmin(chatId, userId, auth)
       \/ (auth.chatAgain # "error" /\ auth.chatAgain = "private")

(***************************************************************************)
(* The configuration commands.  A handler reads no state before its        *)
(* awaits return, so each is one step taken when the platform has answered.*)
(***************************************************************************)
GMT6 == <<"G", "M", "T", "+", "6">>

\* chatSchedules.get(chatId) || {}
EmptySchedule ==
    [startTime |-> undefined, endTime |-> undefined,
     deleteDuration |-> undefined, timezone |-> undefined]

scheduleData(chatId) ==
    IF chatId \in DOMAIN chatSchedules THEN chatSchedules[chatId] ELSE EmptySchedule

\* bot.processUpdate: one more update is handled
CountUpdate ==
    /\ updateCount < MaxUpdates
    /\ updateCount' = updateCount + 1

\* a faulty variant: turning the timer off also drops the chat's armed deletions
SetTimerOffCancels(chatId, userId, auth, arg) ==
    /\ CountUpdate
    /\ LET inputDuration == toLowerCase(trim(arg))
       IN  IF ~Authorized(chatId, userId, auth)
           THEN UNCHANGED <<chatTimers, timers>> /\ sent' = NoReply
           ELSE IF inputDuration = OFF
           THEN /\ chatTimers' = MapSet(chatTimers, chatId, OFF)
                /\ timers' = {t \in timers : t.chatId # chatId}
                /\ sent' = "timer is now OFF"
           ELSE IF TruthyMs(parseDurationToMs(inputDuration))
           THEN /\ chatTimers' = MapSet(chatTimers, chatId, inputDuration)
                /\ sent' = "timer set"
                /\ UNCHANGED timers
           ELSE UNCHANGED <<chatTimers, timers>> /\ sent' = "invalid duration format"
    /\ msg' = NoMsg
    /\ logged' = NoLog
    /\ UNCHANGED <<chatSchedules, chatWhitelists, now, deleteCalls, processed, codec>>

\* a faulty variant: whatever parseDurationToMs does not answer with null is
\* stored
SetTimerAcceptsZero(chatId, userId, auth, arg) ==
    /\ CountUpdate
    /\ LET inputDuration == toLowerCase(trim(arg))
       IN  IF ~Authorized(chatId, userId, auth)
           THEN UNCHANGED chatTimers /\ sent' = NoReply
           ELSE IF inputDuration = OFF
           THEN chatTimers' = MapSet(chatTimers, chatId, OFF) /\ sent' = "timer is now OFF"
           ELSE IF parseDurationToMs(inputDuration) # NullMs
           THEN /\ chatTimers' = MapSet(chatTimers, chatId, inputDuration)
                /\ sent' = "timer set"
           ELSE UNCHANGED chatTimers /\ sent' = "invalid duration format"
    /\ msg' = NoMsg
    /\ logged' = NoLog
    /\ UNCHANGED <<chatSchedules, chatWhitelists, now, media, codec>>

\* /settimer <duration|off>
SetTimer(chatId, userId, auth, arg) ==
    /\ CountUpdate
    /\ LET inputDuration == toLowerCase(trim(arg))
       IN  IF ~Authorized(chatId, userId, auth)
           THEN UNCHANGED chatTimers /\ sent' = NoReply
           ELSE IF inputDuration = OFF
           THEN chatTimers' = MapSet(chatTimers, chatId, OFF) /\ sent' = "timer is now OFF"
           ELSE IF TruthyMs(parseDurationToMs(inputDuration))
           THEN /\ chatTimers' = MapSet(chatTimers, chatId, inputDuration)
                /\ sent' = "timer set"
           ELSE UNCHANGED chatTimers /\ sent' = "invalid duration format"
    /\ msg' = NoMsg
    /\ logged' = NoLog
    /\ UNCHANGED <<chatSchedules, chatWhitelists, now, media, codec>>

\* a faulty variant: a new start discards the end time stored before
ScheduleClearsEnd(chatId, userId, auth, args) ==
    /\ CountUpdate
    /\ IF ~Authorized(chatId, userId, auth)
       THEN UNCHANGED chatSchedules /\ sent' = NoReply
       ELSE IF Len(args) # 2
       THEN UNCHANGED chatSchedules /\ sent' = "invalid format"
       ELSE LET startTime == args[1]
                deleteDuration == toLowerCase(args[2])
            IN  IF ~IsHHMM(startTime) \/ ~TruthyMs(parseDurationToMs(deleteDuration))
                THEN UNCHANGED chatSchedules /\ sent' = "invalid time or duration format"
                ELSE /\ chatSchedules' =
                            MapSet(chatSchedules, chatId,
                                   [scheduleData(chatId) EXCEPT
                                       !.startTime = startTime,
                                       !.endTime = undefined,
                                       !.deleteDuration = deleteDuration,
                                       !.timezone = GMT6])
                     /\ sent' = "timer scheduled"
    /\ msg' = NoMsg
    /\ logged' = NoLog
    /\ UNCHANGED <<chatTimers, chatWhitelists, now, media, codec>>

\* a faulty variant: the command writes a new record instead of updating the
\* stored one
ScheduleReplacesRecord(chatId, userId, auth, args) ==
    /\ CountUpdate
    /\ IF ~Authorized(chatId, userId, auth)
       THEN UNCHANGED chatSchedules /\ sent' = NoReply
       ELSE IF Len(args) # 2
       THEN UNCHANGED chatSchedules /\ sent' = "invalid format"
       ELSE LET startTime == args[1]
                deleteDuration == toLowerCase(args[2])
            IN  IF ~IsHHMM(startTime) \/ ~TruthyMs(parseDurationToMs(deleteDuration))
                THEN UNCHANGED chatSchedules /\ sent' = "invalid time or duration format"
                ELSE /\ chatSchedules' =
                            MapSet(chatSchedules, chatId,
                                   [EmptySchedule EXCEPT
                                       !.startTime = startTime,
                                       !.deleteDuration = deleteDuration,
                                       !.timezone = GMT6])
                     /\ sent' = "timer scheduled"
    /\ msg' = NoMsg
    /\ logged' = NoLog
    /\ UNCHANGED <<chatTimers, chatWhitelists, now, media, codec>>

\* a faulty variant: the record read with `|| {}` is stored before the
\* arguments are looked at
ScheduleStoresFirst(chatId, userId, auth, args) ==
    /\ CountUpdate
    /\ IF ~Authorized(chatId, userId, auth)
       THEN UNCHANGED chatSchedules /\ sent' = NoReply
       ELSE IF Len(args) # 2
       THEN /\ chatSchedules' = MapSet(chatSchedules, chatId, scheduleData(chatId))
            /\ sent' = "invalid format"
       ELSE LET startTime == args[1]
                deleteDuration == toLowerCase(args[2])
            IN  IF ~IsHHMM(startTime) \/ ~TruthyMs(parseDurationToMs(deleteDuration))
                THEN /\ chatSchedules' = MapSet(chatSchedules, chatId, scheduleData(chatId))
                     /\ sent' = "invalid time or duration format"
                ELSE /\ chatSchedules' =
                            MapSet(chatSchedules, chatId,
                                   [scheduleData(chatId) EXCEPT
                                       !.startTime = startTime,
                                       !.deleteDuration = deleteDuration,
                                       !.timezone = GMT6])
                     /\ sent' = "timer scheduled"
    /\ msg' = NoMsg
    /\ logged' = NoLog
    /\ UNCHANGED <<chatTimers, chatWhitelists, now, media, codec>>

\* /schedule <HH:MM_start> <delete_duration>
Schedule(chatId, userId, auth, args) ==
    /\ CountUpdate
    /\ IF ~Authorized(chatId, userId, auth)
       THEN UNCHANGED chatSchedules /\ sent' = NoReply
       ELSE IF Len(args) # 2
       THEN UNCHANGED chatSchedules /\ sent' = "invalid format"
       ELSE LET startTime == args[1]
                deleteDuration == toLowerCase(args[2])
            IN  IF ~IsHHMM(startTime) \/ ~TruthyMs(parseDurationToMs(deleteDuration))
                THEN UNCHANGED chatSchedules /\ sent' = "invalid time or duration format"
                ELSE /\ chatSchedules' =
                            MapSet(chatSchedules, chatId,
                                   [scheduleData(chatId) EXCEPT
                                       !.startTime = startTime,
                                       !.deleteDuration = deleteDuration,
                                       !.timezone = GMT6])
                     /\ sent' = "timer scheduled"
    /\ msg' = NoMsg
    /\ logged' = NoLog
    /\ UNCHANGED <<chatTimers, chatWhitelists, now, media, codec>>

\* a faulty variant: the end time is written into a new record instead of the
\* stored one
ScheduleOffReplacesRecord(chatId, userId, auth, arg) ==
    /\ CountUpdate
    /\ LET endTime == trim(arg)
       IN  IF ~Authorized(chatId, userId, auth)
           THEN UNCHANGED chatSchedules /\ sent' = NoReply
           ELSE IF ~IsHHMM(endTime)
           THEN UNCHANGED chatSchedules /\ sent' = "invalid time format"
           ELSE /\ chatSchedules' =
                       MapSet(chatSchedules, chatId,
                              [EmptySchedule EXCEPT !.endTime = endTime, !.timezone = GMT6])
                /\ sent' = "timer will turn off"
    /\ msg' = NoMsg
    /\ logged' = NoLog
    /\ UNCHANGED <<chatTimers, chatWhitelists, now, media, codec>>

\* /scheduleoff <HH:MM_end>
ScheduleOff(chatId, userId, auth, arg) ==
    /\ CountUpdate
    /\ LET endTime == trim(arg)
           old == scheduleData(chatId)
       IN  IF ~Authorized(chatId, userId, auth)
           THEN UNCHANGED chatSchedules /\ sent' = NoReply
           ELSE IF ~IsHHMM(endTime)
           THEN UNCHANGED chatSchedules /\ sent' = "invalid time format"
           ELSE /\ chatSchedules' =
                       MapSet(chatSchedules, chatId,
                              [old EXCEPT
                                  !.endTime = endTime,
                                  !.timezone = IF Truthy(old.timezone) THEN old.timezone ELSE GMT6])
                /\ sent' = "timer will turn off"
    /\ msg' = NoMsg
    /\ logged' = NoLog
    /\ UNCHANGED <<chatTimers, chatWhitelists, now, media, codec>>

\* chatWhitelists.get(chatId) || []
whitelistOf(chatId) ==
    IF chatId \in DOMAIN chatWhitelists THEN chatWhitelists[chatId] ELSE <<>>

\* Array.prototype.includes
Includes(array, x) == \E i \in 1..Len(array) : array[i] = x

\* Array.prototype.indexOf, 1-based; 0 when absent
IndexOf(array, x) ==
    IF Includes(array, x)
    THEN CHOOSE i \in 1..Len(array) : array[i] = x /\ \A j \in 1..(i - 1) : array[j] # x
    ELSE 0

\* array.splice(index, 1)
Splice(array, index) == SubSeq(array, 1, index - 1) \o SubSeq(array, index + 1, Len(array))

\* a faulty variant: only the first entry of the whitelist is looked at
isWhitelistedFirstOnly(chatId, userId) ==
    Len(whitelistOf(chatId)) > 0 /\ whitelistOf(chatId)[1] = userId

\* a faulty variant: the whitelist is not consulted
isWhitelistedNever(chatId, userId) == FALSE

\* whitelist.includes(userId) of processMedia
isWhitelisted(chatId, userId) == Includes(whitelistOf(chatId), userId)

\* a faulty variant: the user is pushed without looking for him in the array
WhitelistHimAlwaysPush(chatId, userId, auth, replyFrom) ==
    /\ CountUpdate
    /\ LET whitelist == whitelistOf(chatId)
       IN  IF ~Authorized(chatId, userId, auth)
           THEN UNCHANGED chatWhitelists /\ sent' = NoReply
           ELSE IF replyFrom = 0
           THEN UNCHANGED chatWhitelists /\ sent' = "reply to a message to whitelist"
           ELSE /\ chatWhitelists' = MapSet(chatWhitelists, chatId, Append(whitelist, replyFrom))
                /\ sent' = "added to the whitelist"
    /\ msg' = NoMsg
    /\ logged' = NoLog
    /\ UNCHANGED <<chatTimers, chatSchedules, now, media, codec>>

\* /whitelist_him in reply to a message of replyFrom (0: not a reply)
WhitelistHim(chatId, userId, auth, replyFrom) ==
    /\ CountUpdate
    /\ LET whitelist == whitelistOf(chatId)
       IN  IF ~Authorized(chatId, userId, auth)
           THEN UNCHANGED chatWhitelists /\ sent' = NoReply
           ELSE IF replyFrom = 0
           THEN UNCHANGED chatWhitelists /\ sent' = "reply to a message to whitelist"
           ELSE IF ~Includes(whitelist, replyFrom)
           THEN /\ chatWhitelists' = MapSet(chatWhitelists, chatId, Append(whitelist, replyFrom))
                /\ sent' = "added to the whitelist"
           ELSE UNCHANGED chatWhitelists /\ sent' = "already on the whitelist"
    /\ msg' = NoMsg
    /\ logged' = NoLog
    /\ UNCHANGED <<chatTimers, chatSchedules, now, media, codec>>

\* /remove_him in reply to a message of replyFrom (0: not a reply)
RemoveHim(chatId, userId, auth, replyFrom) ==
    /\ CountUpdate
    /\ LET whitelist == whitelistOf(chatId)
           index == IndexOf(whitelist, replyFrom)
       IN  IF ~Authorized(chatId, userId, auth)
           THEN UNCHANGED chatWhitelists /\ sent' = NoReply
           ELSE IF replyFrom = 0
           THEN UNCHANGED chatWhitelists /\ sent' = "reply to a message to remove"
           ELSE IF index > 0
           THEN /\ chatWhitelists' = MapSet(chatWhitelists, chatId, Splice(whitelist, index))
                /\ sent' = "removed from the whitelist"
           ELSE UNCHANGED chatWhitelists /\ sent' = "not on the whitelist"
    /\ msg' = NoMsg
    /\ logged' = NoLog
    /\ UNCHANGED <<chatTimers, chatSchedules, now, media, codec>>

(***************************************************************************)
(* processMedia: the timer resolution and the arming of the deletion.      *)
(***************************************************************************)
\* const caption = msg.caption ? msg.caption.trim() : ''
captionOf(msgCaption) == IF Truthy(msgCaption) THEN trim(msgCaption) ELSE <<>>

\* a faulty variant: a token that parses is used even when it parses to 0
captionTimerZeroAccepted(caption) ==
    LET match == captionDurationMatch(toLowerCase(caption))
    IN  IF match # null /\ Len(parseDurationToMs(match)) = 1 THEN match ELSE null

\* timerToUse after the caption step
captionTimer(caption) ==
    LET match == captionDurationMatch(toLowerCase(caption))
    IN  IF match # null /\ TruthyMs(parseDurationToMs(match)) THEN match ELSE null

\* a faulty variant: a general timer that is set keeps the schedule from applying
scheduleTimerUnlessChatTimer(timerToUse, chatId, nowMs) ==
    IF Truthy(timerToUse) \/ chatId \in DOMAIN chatTimers THEN timerToUse
    ELSE IF chatId \notin DOMAIN chatSchedules THEN timerToUse
    ELSE LET schedule == chatSchedules[chatId]
         IN  IF /\ Truthy(schedule.startTime)
                /\ Truthy(schedule.deleteDuration)
                /\ isActiveSchedule(schedule, nowMs)
             THEN schedule.deleteDuration
             ELSE timerToUse

\* a faulty variant: a schedule record that lacks a field ends the resolution
\* with the default duration
scheduleTimerIncompleteDefault(timerToUse, chatId, nowMs) ==
    IF Truthy(timerToUse) THEN timerToUse
    ELSE IF chatId \notin DOMAIN chatSchedules THEN timerToUse
    ELSE LET schedule == chatSchedules[chatId]
         IN  IF Truthy(schedule.startTime) /\ Truthy(schedule.deleteDuration)
             THEN IF isActiveSchedule(schedule, nowMs) THEN schedule.deleteDuration
                  ELSE timerToUse
             ELSE DEFAULT_TIMER_DURATION

\* timerToUse after the schedule step
scheduleTimer(timerToUse, chatId, nowMs) ==
    IF Truthy(timerToUse) THEN timerToUse
    ELSE IF chatId \notin DOMAIN chatSchedules THEN timerToUse
    ELSE LET schedule == chatSchedules[chatId]
         IN  IF /\ Truthy(schedule.startTime)
                /\ Truthy(schedule.deleteDuration)
                /\ isActiveSchedule(schedule, nowMs)
             THEN schedule.deleteDuration
             ELSE timerToUse

\* a faulty variant: the chat's timer is never read
chatTimerNotRead(timerToUse, chatId) == timerToUse

\* a faulty variant: a stored "off" reads as no setting
chatTimerOffAsUnset(timerToUse, chatId) ==
    IF Truthy(timerToUse) THEN timerToUse
    ELSE IF MapGet(chatTimers, chatId) = OFF THEN undefined
    ELSE MapGet(chatTimers, chatId)

\* timerToUse after the chat timer step
chatTimer(timerToUse, chatId) ==
    IF Truthy(timerToUse) THEN timerToUse ELSE MapGet(chatTimers, chatId)

\* timerToUse after the default step
defaultTimer(timerToUse) ==
    IF Falsy(timerToUse) /\ timerToUse # OFF THEN DEFAULT_TIMER_DURATION ELSE timerToUse

\* a faulty variant: an explicit "off" is looked at before the caption
resolveTimerOffFirst(chatId, caption, nowMs) ==
    IF MapGet(chatTimers, chatId) = OFF THEN OFF
    ELSE defaultTimer(chatTimer(scheduleTimer(captionTimer(caption), chatId, nowMs), chatId))

\* the timerToUse that processMedia reaches its 'off' test with
resolveTimer(chatId, caption, nowMs) ==
    defaultTimer(chatTimer(scheduleTimer(captionTimer(caption), chatId, nowMs), chatId))

\* the setTimeout armed for a message; handle tells the Timeout objects apart
Timeout(chatId, messageId, timerToUse, deleteDelayMs) ==
    [handle |-> Len(processed) + 1,
     chatId |-> chatId, messageId |-> messageId, timerToUse |-> timerToUse,
     deleteDelayMs |-> deleteDelayMs, fireAt |-> now + deleteDelayMs]

\* a faulty variant: no deletion is armed for a message of which one is pending
processMediaMsgDeduped(chatId, messageId, userId, msgCaption) ==
    /\ CountUpdate
    /\ LET caption == captionOf(msgCaption)
           timerToUse == resolveTimer(chatId, caption, now)
           deleteDelayMs == parseDurationToMs(timerToUse)
           decide(result) == processed' = Append(processed, result)
           pending == \E t \in timers : t.chatId = chatId /\ t.messageId = messageId
       IN  /\ msg' = [chatId |-> chatId, messageId |-> messageId,
                      userId |-> userId, caption |-> msgCaption]
           /\ IF isWhitelisted(chatId, userId)
              THEN decide("whitelisted") /\ UNCHANGED timers
              ELSE IF timerToUse = OFF
              THEN decide("off") /\ UNCHANGED timers
              ELSE IF TruthyMs(deleteDelayMs) /\ deleteDelayMs[1] > 0
              THEN /\ decide("armed")
                   /\ timers' = IF pending THEN timers
                                 ELSE timers \cup {Timeout(chatId, messageId, timerToUse, deleteDelayMs[1])}
              ELSE decide("invalid") /\ UNCHANGED timers
    /\ sent' = NoReply
    /\ logged' = NoLog
    /\ UNCHANGED <<config, now, deleteCalls, codec>>

\* processMedia(msg) for a message with the given message_id
processMediaMsg(chatId, messageId, userId, msgCaption) ==
    /\ CountUpdate
    /\ LET caption == captionOf(msgCaption)
           timerToUse == resolveTimer(chatId, caption, now)
           deleteDelayMs == parseDurationToMs(timerToUse)
           decide(result) == processed' = Append(processed, result)
       IN  /\ msg' = [chatId |-> chatId, messageId |-> messageId,
                      userId |-> userId, caption |-> msgCaption]
           /\ IF isWhitelisted(chatId, userId)
              THEN decide("whitelisted") /\ UNCHANGED timers
              ELSE IF timerToUse = OFF
              THEN decide("off") /\ UNCHANGED timers
              ELSE IF TruthyMs(deleteDelayMs) /\ deleteDelayMs[1] > 0
              THEN /\ decide("armed")
                   /\ timers' = timers \cup {Timeout(chatId, messageId, timerToUse, deleteDelayMs[1])}
              ELSE decide("invalid") /\ UNCHANGED timers
    /\ sent' = NoReply
    /\ logged' = NoLog
    /\ UNCHANGED <<config, now, deleteCalls, codec>>

\* processMedia(msg) for a message whose message_id is the next unused one
processMedia(chatId, userId, msgCaption) ==
    processMediaMsg(chatId, Len(processed) + 1, userId, msgCaption)

\* how a bot.deleteMessage call can end: fulfilled, rejected with a response
\* of the platform, rejected without one
DeleteOutcomes == {"ok", "message to delete not found", "message can't be deleted", "network"}

\* the .then and .catch handlers of the deleteMessage call: console.log or
\* console.error, the wording, and the errorBody.description or error.message
\* that the line ends with
deleteLog(outcome) ==
    IF outcome = "ok"
    THEN [level |-> "log", kind |-> "Successfully deleted", description |-> "none"]
    ELSE IF outcome = "network"
    THEN [level |-> "error", kind |-> "Network/Other Error", description |-> outcome]
    ELSE [level |-> "error", kind |-> "API Error", description |-> outcome]

\* a faulty variant: the callback runs without waiting for the delay
TimerFiresAtOnce(t) ==
    /\ t \in timers
    /\ timers' = timers \ {t}
    /\ deleteCalls' = Append(deleteCalls, [chatId |-> t.chatId, messageId |-> t.messageId])
    /\ \E outcome \in DeleteOutcomes : logged' = deleteLog(outcome)
    /\ msg' = NoMsg
    /\ sent' = NoReply
    /\ UNCHANGED <<config, now, processed, updateCount, codec>>

\* a faulty variant: a deletion whose call failed stays armed and is called again
TimerFiresRetryOnFailure(t) ==
    /\ t \in timers
    /\ now >= t.fireAt
    /\ deleteCalls' = Append(deleteCalls, [chatId |-> t.chatId, messageId |-> t.messageId])
    /\ \E outcome \in DeleteOutcomes :
          /\ logged' = deleteLog(outcome)
          /\ timers' = IF outcome = "ok" \/ Len(deleteCalls) >= MaxUpdates
                       THEN timers \ {t}
                       ELSE timers
    /\ msg' = NoMsg
    /\ sent' = NoReply
    /\ UNCHANGED <<config, now, processed, updateCount, codec>>

\* a faulty variant: the callback gives up without a call when the chat's
\* general timer has been turned off since the deletion was armed
TimerFiresUnlessOff(t) ==
    /\ t \in timers
    /\ now >= t.fireAt
    /\ timers' = timers \ {t}
    /\ IF MapGet(chatTimers, t.chatId) = OFF
       THEN UNCHANGED deleteCalls /\ logged' = NoLog
       ELSE /\ deleteCalls' = Append(deleteCalls, [chatId |-> t.chatId, messageId |-> t.messageId])
            /\ \E outcome \in DeleteOutcomes : logged' = deleteLog(outcome)
    /\ msg' = NoMsg
    /\ sent' = NoReply
    /\ UNCHANGED <<config, now, processed, updateCount, codec>>

\* the setTimeout callback: one bot.deleteMessage(chatId, messageId), whose
\* outcome is logged
TimerFires(t) ==
    /\ t \in timers
    /\ now >= t.fireAt
    /\ timers' = timers \ {t}
    /\ deleteCalls' = Append(deleteCalls, [chatId |-> t.chatId, messageId |-> t.messageId])
    /\ \E outcome \in DeleteOutcomes : logged' = deleteLog(outcome)
    /\ msg' = NoMsg
    /\ sent' = NoReply
    /\ UNCHANGED <<config, now, processed, updateCount, codec>>

\* time passes: up to a later instant at which the model observes the clock and,
\* past the last of them, up to the expiry of an armed timer
AdvanceTime ==
    /\ LET later == {t \in ClockInstants : t > now}
           expiries == {x.fireAt : x \in {y \in timers : y.fireAt > now}}
       IN  \E t \in (IF later # {} THEN later ELSE expiries) : now' = t
    /\ msg' = NoMsg
    /\ logged' = NoLog
    /\ sent' = NoReply
    /\ UNCHANGED <<config, media, updateCount, codec>>

\* the update is handled in the step in which it arrives: it is never seen in
\* flight, and nothing is recorded of it
Untracked == UNCHANGED <<inflight, ended, handled, report, running>>

Next ==
    \/ \E c \in Chats, u \in CommandUsers, a \in AuthInputs, arg \in SetTimerArgs :
          SetTimer(c, u, a, arg) /\ Untracked
    \/ \E c \in Chats, u \in CommandUsers, a \in AuthInputs, args \in ScheduleArgs :
          Schedule(c, u, a, args) /\ Untracked
    \/ \E c \in Chats, u \in CommandUsers, a \in AuthInputs, arg \in ScheduleOffArgs :
          ScheduleOff(c, u, a, arg) /\ Untracked
    \/ \E c \in Chats, u \in CommandUsers, a \in AuthInputs, r \in Users \cup {0} :
          WhitelistHim(c, u, a, r) /\ Untracked
    \/ \E c \in Chats, u \in CommandUsers, a \in AuthInputs, r \in Users \cup {0} :
          RemoveHim(c, u, a, r) /\ Untracked
    \/ \E c \in Chats, u \in Users, cap \in Captions : processMedia(c, u, cap) /\ Untracked
    \/ \E t \in timers : TimerFires(t) /\ Untracked
    \/ AdvanceTime /\ Untracked

Spec == Init /\ [][Next]_vars

\* time passes and the event loop runs every callback that is due
FairSpec ==
    /\ Spec
    /\ WF_vars(AdvanceTime /\ Untracked)
    /\ WF_vars(\E t \in timers : TimerFires(t) /\ Untracked)

(***************************************************************************)
(* Redelivery: the platform may hand over a media message whose message_id *)
(* was seen before.  No command is issued; time passes and due callbacks   *)
(* run.                                                                    *)
(***************************************************************************)
MessageIds == {1, 2}

\* msg.caption of the redelivered messages: none, or one with a duration
ResendCaptions ==
    { undefined,
      <<"c", "h", "e", "c", "k", " ", "t", "h", "i", "s", " ", "3", "0", "s">> }

ResendNext ==
    \/ \E c \in Chats, id \in MessageIds, u \in CommandUsers, cap \in ResendCaptions :
          processMediaMsg(c, id, u, cap) /\ Untracked
    \/ \E t \in timers : TimerFires(t) /\ Untracked
    \/ AdvanceTime /\ Untracked

ResendSpec ==
    /\ Init
    /\ [][ResendNext]_vars
    /\ WF_vars(AdvanceTime /\ Untracked)
    /\ WF_vars(\E t \in timers : TimerFires(t) /\ Untracked)

(***************************************************************************)
(* The Duration Codec on its own: parseDurationToMs is called once on a    *)
(* text over a small alphabet, or on a value that is not a string.         *)
(***************************************************************************)
DurationAlphabet == {"0", "1", "5", "s", "m", "H", "x", " "}

DurationStrings == UNION {[1..n -> DurationAlphabet] : n \in 0..MaxDurationLen}

DurationInputs == DurationStrings \cup {null, undefined, aNumber}

ParseInit ==
    /\ chatTimers = EmptyMap
    /\ chatSchedules = EmptyMap
    /\ chatWhitelists = EmptyMap
    /\ now = StartInstant
    /\ timers = {}
    /\ deleteCalls = <<>>
    /\ msg = NoMsg
    /\ processed = <<>>
    /\ updateCount = 0
    /\ sent = NoReply
    /\ logged = NoLog
    /\ inflight = {}
    /\ ended = {}
    /\ running = TRUE
    /\ handled = NoUpdate
    /\ report = NoReport
    /\ codec \in {[durationStr |-> x, done |-> FALSE, result |-> NullMs] : x \in DurationInputs}

ParseDuration ==
    /\ ~codec.done
    /\ codec' = [codec EXCEPT !.done = TRUE, !.result = parseDurationToMs(codec.durationStr)]
    /\ UNCHANGED <<config, now, media, msg, updateCount, sent, logged, inflight, ended, handled, report, running>>

ParseNext == ParseDuration

ParseSpec == ParseInit /\ [][ParseNext]_vars

(***************************************************************************)
(* The commands followed one by one: each step records the command update  *)
(* it handled and what the platform answered to the handler's queries.     *)
(***************************************************************************)
\* msg.from.id of a followed command
Actors == {1, 2}

\* what the platform answers to getChat, to getChatMember and to the getChat
\* the handler repeats, whether or not the handler comes to ask
PlatformAnswers ==
    {x \in [chat : {"private", "group", "error"},
            member : {"creator", "administrator", "member", "error"},
            chatAgain : {"private", "group", "error"}] : x.chatAgain \in {x.chat, "error"}}

\* a command update: the command, msg.chat.id, msg.from.id, the texts of
\* match[1] and msg.reply_to_message.from.id (0: not a reply)
Update(cmd, chatId, userId, args, replyTo) ==
    [cmd |-> cmd, chatId |-> chatId, userId |-> userId, args |-> args, replyTo |-> replyTo]

\* the handler of update h ended in this step, the platform having answered auth
Ended(h, auth) ==
    /\ handled' = <<[update |-> h, auth |-> auth]>>
    /\ UNCHANGED <<inflight, ended, running>>

\* the same for a handler that sends no /status reply
Followed(h, auth) == Ended(h, auth) /\ report' = NoReport

\* one valid argument for each command
AuthSetTimerArgs == {<<"1", "H">>}
AuthScheduleArgs == {<< <<"2", "2", ":", "0", "0">>, <<"5", "m">> >>}
AuthScheduleOffArgs == {<<"0", "8", ":", "0", "0">>}
AuthReplies == {2}

AuthNext ==
    \/ \E c \in Chats, u \in Actors, a \in PlatformAnswers, arg \in AuthSetTimerArgs :
          SetTimer(c, u, a, arg) /\ Followed(Update("settimer", c, u, <<arg>>, 0), a)
    \/ \E c \in Chats, u \in Actors, a \in PlatformAnswers, args \in AuthScheduleArgs :
          Schedule(c, u, a, args) /\ Followed(Update("schedule", c, u, args, 0), a)
    \/ \E c \in Chats, u \in Actors, a \in PlatformAnswers, arg \in AuthScheduleOffArgs :
          ScheduleOff(c, u, a, arg) /\ Followed(Update("scheduleoff", c, u, <<arg>>, 0), a)
    \/ \E c \in Chats, u \in Actors, a \in PlatformAnswers, r \in AuthReplies :
          WhitelistHim(c, u, a, r) /\ Followed(Update("whitelist_him", c, u, <<>>, r), a)
    \/ \E c \in Chats, u \in Actors, a \in PlatformAnswers, r \in AuthReplies :
          RemoveHim(c, u, a, r) /\ Followed(Update("remove_him", c, u, <<>>, r), a)

AuthSpec == Init /\ [][AuthNext]_vars

(***************************************************************************)
(* The variant of the bot that hands the whole message to isAdmin          *)
(* (src/index.js 407-802): the chat's type and sender_chat are read from   *)
(* the message, a refused command is answered, and the command message and *)
(* the bot's reply are deleted after a delay.  Its stores and the bodies   *)
(* of /settimer, /schedule and /scheduleoff are those of the first variant.*)
(***************************************************************************)
BOT_REPLY_DELETE_DELAY == 60000
USER_COMMAND_DELETE_DELAY == 10000

\* msg.from.id of a message sent as the group itself
GroupAnonymousBot == 3
\* a channel's chat id, as sender_chat.id of a message sent on its behalf
OtherChat == 7

\* the command messages: msg.chat, msg.sender_chat (0: none), msg.from and
\* msg.message_id
Message(c, type, senderChat, userId) ==
    [chatId |-> c, chatType |-> type, senderChat |-> senderChat, userId |-> userId, messageId |-> 0]

CommandMessages ==
    UNION {{Message(c, "private", 0, 1), Message(c, "group", 0, 1),
            Message(c, "group", c, GroupAnonymousBot),
            Message(c, "group", OtherChat, GroupAnonymousBot)} : c \in Chats}

\* what getChatMember answers, if asked
MemberAnswers == {"creator", "administrator", "member", "error"}

\* a faulty variant: sender_chat is not looked at
isAdminMsgNoSenderChat(m, member) ==
    IF m.chatType = "private" THEN TRUE
    ELSE IF m.userId # 0
    THEN IF member = "error" THEN FALSE ELSE member \in {"administrator", "creator"}
    ELSE FALSE

\* isAdmin(msg), given what getChatMember answers
isAdminMsg(m, member) ==
    IF m.chatType = "private" THEN TRUE
    ELSE IF m.senderChat # 0 /\ m.senderChat = m.chatId THEN TRUE
    ELSE IF m.userId # 0
    THEN IF member = "error" THEN FALSE ELSE member \in {"administrator", "creator"}
    ELSE FALSE

\* the setTimeout of autoDeleteMessage(chatId, messageId, delay)
autoDeleteMessage(chatId, messageId, delay) ==
    [handle |-> messageId, chatId |-> chatId, messageId |-> messageId,
     timerToUse |-> undefined, deleteDelayMs |-> delay, fireAt |-> now + delay]

\* msg.message_id of the command of this step, and the message_id the platform
\* gives the bot's reply to it
CommandId == 2 * updateCount + 1
ReplyId == 2 * updateCount + 2

\* the timers a command handler arms: one for the command message and, once
\* bot.sendMessage is fulfilled, one for the reply
autoDeletes(m, replied) ==
    {autoDeleteMessage(m.chatId, CommandId, USER_COMMAND_DELETE_DELAY)}
    \cup (IF replied THEN {autoDeleteMessage(m.chatId, ReplyId, BOT_REPLY_DELETE_DELAY)} ELSE {})

\* the guard each command handler opens with
Refused(m, member) == ~isAdminMsg(m, member) /\ m.chatType # "private"

\* /settimer <duration|off>
SetTimerMsg(m, member, arg, replied) ==
    /\ CountUpdate
    /\ timers' = timers \cup autoDeletes(m, replied)
    /\ LET chatId == m.chatId
           inputDuration == toLowerCase(trim(arg))
       IN  IF Refused(m, member)
           THEN UNCHANGED chatTimers /\ sent' = "only admins can use this command"
           ELSE IF inputDuration = OFF
           THEN chatTimers' = MapSet(chatTimers, chatId, OFF) /\ sent' = "timer is now OFF"
           ELSE IF TruthyMs(parseDurationToMs(inputDuration))
           THEN /\ chatTimers' = MapSet(chatTimers, chatId, inputDuration)
                /\ sent' = "timer set"
           ELSE UNCHANGED chatTimers /\ sent' = "invalid duration format"
    /\ msg' = NoMsg
    /\ logged' = NoLog
    /\ UNCHANGED <<chatSchedules, chatWhitelists, now, deleteCalls, processed, codec>>

\* /schedule <HH:MM_start> <delete_duration>; a format error is answered before
\* the reply's deletion is armed in the same way
ScheduleMsg(m, member, args, replied) ==
    /\ CountUpdate
    /\ timers' = timers \cup autoDeletes(m, replied)
    /\ LET chatId == m.chatId
       IN  IF Refused(m, member)
           THEN UNCHANGED chatSchedules /\ sent' = "only admins can use this command"
           ELSE IF Len(args) # 2
           THEN UNCHANGED chatSchedules /\ sent' = "invalid format"
           ELSE LET startTime == args[1]
                    deleteDuration == toLowerCase(args[2])
                IN  IF ~IsHHMM(startTime) \/ ~TruthyMs(parseDurationToMs(deleteDuration))
                    THEN UNCHANGED chatSchedules /\ sent' = "invalid time or duration format"
                    ELSE /\ chatSchedules' =
                                MapSet(chatSchedules, chatId,
                                       [scheduleData(chatId) EXCEPT
                                           !.startTime = startTime,
                                           !.deleteDuration = deleteDuration,
                                           !.timezone = GMT6])
                         /\ sent' = "timer scheduled"
    /\ msg' = NoMsg
    /\ logged' = NoLog
    /\ UNCHANGED <<chatTimers, chatWhitelists, now, deleteCalls, processed, codec>>

\* /scheduleoff <HH:MM_end>
ScheduleOffMsg(m, member, arg, replied) ==
    /\ CountUpdate
    /\ timers' = timers \cup autoDeletes(m, replied)
    /\ LET chatId == m.chatId
           endTime == trim(arg)
           old == scheduleData(chatId)
       IN  IF Refused(m, member)
           THEN UNCHANGED chatSchedules /\ sent' = "only admins can use this command"
           ELSE IF ~IsHHMM(endTime)
           THEN UNCHANGED chatSchedules /\ sent' = "invalid time format"
           ELSE /\ chatSchedules' =
                       MapSet(chatSchedules, chatId,
                              [old EXCEPT
                                  !.endTime = endTime,
                                  !.timezone = IF Truthy(old.timezone) THEN old.timezone ELSE GMT6])
                /\ sent' = "timer will turn off"
    /\ msg' = NoMsg
    /\ logged' = NoLog
    /\ UNCHANGED <<chatTimers, chatWhitelists, now, deleteCalls, processed, codec>>

\* one valid and one invalid argument for each command
MsgSetTimerArgs == {<<"1", "H">>, <<"0", "s">>}
MsgScheduleArgs == {<< <<"2", "2", ":", "0", "0">>, <<"5", "m">> >>, << <<"2", "2", ":", "0", "0">> >>}
MsgScheduleOffArgs == {<<"0", "8", ":", "0", "0">>, <<"8", "a", "m">>}

\* the command of message m, with the texts of match[1]
Command(cmd, m, args) == [cmd |-> cmd, msg |-> [m EXCEPT !.messageId = CommandId], args |-> args]

MsgNext ==
    \/ \E m \in CommandMessages, member \in MemberAnswers, arg \in MsgSetTimerArgs, replied \in BOOLEAN :
          SetTimerMsg(m, member, arg, replied) /\ Followed(Command("settimer", m, <<arg>>), member)
    \/ \E m \in CommandMessages, member \in MemberAnswers, args \in MsgScheduleArgs, replied \in BOOLEAN :
          ScheduleMsg(m, member, args, replied) /\ Followed(Command("schedule", m, args), member)
    \/ \E m \in CommandMessages, member \in MemberAnswers, arg \in MsgScheduleOffArgs, replied \in BOOLEAN :
          ScheduleOffMsg(m, member, arg, replied) /\ Followed(Command("scheduleoff", m, <<arg>>), member)

\* the commands of this variant, handled before any of the deletions they arm
\* is due
MsgSpec == Init /\ [][MsgNext]_vars

(***************************************************************************)
(* /settimer, /schedule and /scheduleoff followed one by one, with a valid *)
(* argument and several malformed ones each.                               *)
(***************************************************************************)
\* the platform's answers for an actor who passes and for one who does not
ArgsAnswers ==
    {[chat |-> "private", member |-> "member", chatAgain |-> "private"],
     [chat |-> "group", member |-> "administrator", chatAgain |-> "group"],
     [chat |-> "group", member |-> "member", chatAgain |-> "group"]}

\* match[1] of /\/settimer (.+)/
ArgsSetTimer ==
    {<<"1", "H">>, <<"5", "x">>, <<"1", "5">>, <<"h">>, <<"1", " ", "h">>}

\* match[1].trim().split(' ') of /\/schedule (.+)/
ArgsSchedule ==
    { << <<"2", "2", ":", "0", "0">>, <<"5", "m">> >>,
      << <<"2", "2", ":", "0", "0">> >>,
      << <<"2", "2", ":", "0", "0">>, <<>>, <<"5", "m">> >>,
      << <<"8", "a", "m">>, <<"5", "m">> >>,
      << <<"9", ":", "0", "0">>, <<"5", "m">> >>,
      << <<"2", "2", ":", "0", "0">>, <<"5", "x">> >> }

\* match[1] of /\/scheduleoff (.+)/
ArgsScheduleOff ==
    {<<"0", "8", ":", "0", "0">>, <<"8", "a", "m">>, <<"9", ":", "0", "0">>,
     <<"0", "8", ":", "0", "0", ":", "0", "0">>}

ArgsNext ==
    \/ \E c \in Chats, u \in CommandUsers, a \in ArgsAnswers, arg \in ArgsSetTimer :
          SetTimer(c, u, a, arg) /\ Followed(Update("settimer", c, u, <<arg>>, 0), a)
    \/ \E c \in Chats, u \in CommandUsers, a \in ArgsAnswers, args \in ArgsSchedule :
          Schedule(c, u, a, args) /\ Followed(Update("schedule", c, u, args, 0), a)
    \/ \E c \in Chats, u \in CommandUsers, a \in ArgsAnswers, arg \in ArgsScheduleOff :
          ScheduleOff(c, u, a, arg) /\ Followed(Update("scheduleoff", c, u, <<arg>>, 0), a)

ArgsSpec == Init /\ [][ArgsNext]_vars

(***************************************************************************)
(* /status (src/index.js 244-278): the reply's variable parts, and the     *)
(* command followed among the commands that change what it shows.          *)
(***************************************************************************)
\* escapeChars of escapeMarkdownV2, but for the backquote, which no text of the
\* model holds
EscapeChars ==
    {"_", "*", "[", "]", "(", ")", "~", ">", "#", "+", "-", "=", "|", "{", "}", ".", "!"}

\* text.replace(/([escapeChars])/g, '\\$1')
RECURSIVE escapeMarkdownV2(_)
escapeMarkdownV2(text) ==
    IF text = <<>> THEN <<>>
    ELSE (IF Head(text) \in EscapeChars THEN <<"\\", Head(text)>> ELSE <<Head(text)>>)
         \o escapeMarkdownV2(Tail(text))

\* the fixed phrases of the reply, each taken as one piece of text
StatusOff == <<"OFF">>
StatusDeletesAfter == <<"Deletes after ">>
StatusEndNotSet == <<"Not set (runs indefinitely or until /scheduleoff)">>
StatusNotConfigured == <<"Not configured or OFF.">>

\* a faulty variant: the general timer is shown as stored, without the default
statusMessageNoDefault(chatId) ==
    LET groupTimer == MapGet(chatTimers, chatId)
        schedule == chatSchedules[chatId]
        whitelist == whitelistOf(chatId)
    IN  [generalTimer |->
             IF groupTimer = OFF THEN StatusOff
             ELSE StatusDeletesAfter \o escapeMarkdownV2(groupTimer),
         schedule |->
             IF /\ chatId \in DOMAIN chatSchedules
                /\ Truthy(schedule.startTime)
                /\ Truthy(schedule.deleteDuration)
             THEN <<escapeMarkdownV2(schedule.startTime),
                    escapeMarkdownV2(schedule.deleteDuration),
                    IF Truthy(schedule.endTime) THEN escapeMarkdownV2(schedule.endTime)
                    ELSE StatusEndNotSet>>
             ELSE <<StatusNotConfigured>>,
         whitelisted |-> Len(whitelist)]

\* the variable parts of statusMessage as sent: the general timer line, the
\* schedule lines (Starts, Deletion during schedule, Ends) or the one line
\* that stands for them, and the number of whitelisted users
statusMessage(chatId) ==
    LET groupTimer == IF Truthy(MapGet(chatTimers, chatId)) THEN chatTimers[chatId]
                      ELSE DEFAULT_TIMER_DURATION
        schedule == chatSchedules[chatId]
        whitelist == whitelistOf(chatId)
    IN  [generalTimer |->
             IF groupTimer = OFF THEN StatusOff
             ELSE StatusDeletesAfter \o escapeMarkdownV2(groupTimer),
         schedule |->
             IF /\ chatId \in DOMAIN chatSchedules
                /\ Truthy(schedule.startTime)
                /\ Truthy(schedule.deleteDuration)
             THEN <<escapeMarkdownV2(schedule.startTime),
                    escapeMarkdownV2(schedule.deleteDuration),
                    IF Truthy(schedule.endTime) THEN escapeMarkdownV2(schedule.endTime)
                    ELSE StatusEndNotSet>>
             ELSE <<StatusNotConfigured>>,
         whitelisted |-> Len(whitelist)]

\* a faulty variant: the general timer that the reply shows is stored
StatusStoresDefault(chatId, userId, auth) ==
    /\ CountUpdate
    /\ IF ~Authorized(chatId, userId, auth)
       THEN sent' = NoReply /\ report' = NoReport /\ UNCHANGED chatTimers
       ELSE /\ sent' = "current bot configuration"
            /\ report' = <<statusMessage(chatId)>>
            /\ chatTimers' =
                  MapSet(chatTimers, chatId,
                         IF Truthy(MapGet(chatTimers, chatId)) THEN chatTimers[chatId]
                         ELSE DEFAULT_TIMER_DURATION)
    /\ msg' = NoMsg
    /\ logged' = NoLog
    /\ UNCHANGED <<chatSchedules, chatWhitelists, now, media, codec>>

\* /status
Status(chatId, userId, auth) ==
    /\ CountUpdate
    /\ IF ~Authorized(chatId, userId, auth)
       THEN sent' = NoReply /\ report' = NoReport
       ELSE sent' = "current bot configuration" /\ report' = <<statusMessage(chatId)>>
    /\ msg' = NoMsg
    /\ logged' = NoLog
    /\ UNCHANGED <<chatTimers, chatSchedules, chatWhitelists, now, media, codec>>

\* what is shown changes with these arguments
StatusSetTimerArgs == {OFF, <<"1", "H">>}
StatusScheduleArgs == {<< <<"2", "2", ":", "0", "0">>, <<"5", "m">> >>}
StatusScheduleOffArgs == {<<"0", "8", ":", "0", "0">>}
StatusReplies == {2}

StatusNext ==
    \/ \E c \in Chats, u \in CommandUsers, a \in ArgsAnswers, arg \in StatusSetTimerArgs :
          SetTimer(c, u, a, arg) /\ Followed(Update("settimer", c, u, <<arg>>, 0), a)
    \/ \E c \in Chats, u \in CommandUsers, a \in ArgsAnswers, args \in StatusScheduleArgs :
          Schedule(c, u, a, args) /\ Followed(Update("schedule", c, u, args, 0), a)
    \/ \E c \in Chats, u \in CommandUsers, a \in ArgsAnswers, arg \in StatusScheduleOffArgs :
          ScheduleOff(c, u, a, arg) /\ Followed(Update("scheduleoff", c, u, <<arg>>, 0), a)
    \/ \E c \in Chats, u \in CommandUsers, a \in ArgsAnswers, r \in StatusReplies :
          WhitelistHim(c, u, a, r) /\ Followed(Update("whitelist_him", c, u, <<>>, r), a)
    \/ \E c \in Chats, u \in CommandUsers, a \in ArgsAnswers :
          Status(c, u, a) /\ Ended(Update("status", c, u, <<>>, 0), a)

StatusSpec == Init /\ [][StatusNext]_vars

(***************************************************************************)
(* Handlers that interleave.  A command handler reads msg.chat.id and then *)
(* awaits isAdmin (src/index.js 113, 140, 175, 203): the update is in      *)
(* flight until the platform answers.  What follows the await reads and    *)
(* writes the stores without another await between the reading and the     *)
(* writing (the getChat repeated after a refusal comes before both), so    *)
(* the rest of the handler is one step.  processMedia has no await.        *)
(***************************************************************************)
\* the commands that can be in flight together
InterleaveUpdates ==
    UNION {{Update("schedule", c, 1, << <<"2", "2", ":", "0", "0">>, <<"5", "m">> >>, 0),
            Update("scheduleoff", c, 1, << <<"0", "8", ":", "0", "0">> >>, 0),
            Update("whitelist_him", c, 1, <<>>, 2),
            Update("whitelist_him", c, 1, <<>>, 3)} : c \in Chats}

\* the platform's answers for an actor who passes and for one who does not
InterleaveAnswers ==
    {[chat |-> "group", member |-> "administrator", chatAgain |-> "group"],
     [chat |-> "group", member |-> "member", chatAgain |-> "group"]}

\* msg.from.id of the media messages
InterleaveUsers == {2}

\* bot.processUpdate: the handler of h starts and waits for isAdmin
Deliver(h) ==
    /\ h \notin inflight
    /\ updateCount + Cardinality(inflight) < MaxUpdates
    /\ inflight' = inflight \cup {h}
    /\ handled' = NoUpdate
    /\ report' = NoReport
    /\ sent' = NoReply
    /\ msg' = NoMsg
    /\ logged' = NoLog
    /\ UNCHANGED <<config, now, media, updateCount, codec, ended, running>>

\* the platform has answered auth: the handler of h runs to its end; the record
\* kept of it tells which updates were still in flight
Resume(h, auth) ==
    /\ h \in inflight
    /\ \/ h.cmd = "schedule" /\ Schedule(h.chatId, h.userId, auth, h.args)
       \/ h.cmd = "scheduleoff" /\ ScheduleOff(h.chatId, h.userId, auth, h.args[1])
       \/ h.cmd = "whitelist_him" /\ WhitelistHim(h.chatId, h.userId, auth, h.replyTo)
    /\ inflight' = inflight \ {h}
    /\ ended' = ended \cup {[update |-> h, auth |-> auth, beside |-> inflight \ {h}]}
    /\ handled' = <<[update |-> h, auth |-> auth]>>
    /\ report' = NoReport
    /\ UNCHANGED running

\* a media message is handled between two steps of the command handlers
MediaBetween(chatId, userId) ==
    /\ processMedia(chatId, userId, undefined)
    /\ handled' = NoUpdate
    /\ report' = NoReport
    /\ UNCHANGED <<inflight, ended, running>>

InterleaveNext ==
    \/ \E h \in InterleaveUpdates : Deliver(h)
    \/ \E h \in InterleaveUpdates, a \in InterleaveAnswers : Resume(h, a)
    \/ \E c \in Chats, u \in InterleaveUsers : MediaBetween(c, u)

InterleaveSpec == Init /\ [][InterleaveNext]_vars

(***************************************************************************)
(* Two chats: the commands and the media messages of one chat among those  *)
(* of another.                                                             *)
(***************************************************************************)
\* msg.chat.id
TwoChats == {1, 2}

\* one argument for each command; the window from 08:00 is active when the
\* model starts
PartitionSetTimerArgs == {OFF, <<"1", "H">>}
PartitionScheduleArgs == {<< <<"0", "8", ":", "0", "0">>, <<"5", "m">> >>}
PartitionScheduleOffArgs == {<<"1", "7", ":", "0", "0">>}
PartitionReplies == {2}
PartitionCaptions == {undefined, <<"c", "h", "e", "c", "k", " ", "t", "h", "i", "s", " ", "3", "0", "s">>}

\* the platform's answer for an administrator of the group
PartitionAnswers == {[chat |-> "group", member |-> "administrator", chatAgain |-> "group"]}

\* the step handles no command
NotACommand ==
    /\ handled' = NoUpdate
    /\ report' = NoReport
    /\ UNCHANGED <<inflight, ended, running>>

PartitionNext ==
    \/ \E c \in TwoChats, u \in CommandUsers, a \in PartitionAnswers, arg \in PartitionSetTimerArgs :
          SetTimer(c, u, a, arg) /\ Followed(Update("settimer", c, u, <<arg>>, 0), a)
    \/ \E c \in TwoChats, u \in CommandUsers, a \in PartitionAnswers, args \in PartitionScheduleArgs :
          Schedule(c, u, a, args) /\ Followed(Update("schedule", c, u, args, 0), a)
    \/ \E c \in TwoChats, u \in CommandUsers, a \in PartitionAnswers, arg \in PartitionScheduleOffArgs :
          ScheduleOff(c, u, a, arg) /\ Followed(Update("scheduleoff", c, u, <<arg>>, 0), a)
    \/ \E c \in TwoChats, u \in CommandUsers, a \in PartitionAnswers, r \in PartitionReplies :
          WhitelistHim(c, u, a, r) /\ Followed(Update("whitelist_him", c, u, <<>>, r), a)
    \/ \E c \in TwoChats, u \in CommandUsers, a \in PartitionAnswers, r \in PartitionReplies :
          RemoveHim(c, u, a, r) /\ Followed(Update("remove_him", c, u, <<>>, r), a)
    \/ \E c \in TwoChats, u \in Users, cap \in PartitionCaptions :
          processMedia(c, u, cap) /\ NotACommand
    \/ AdvanceTime /\ NotACommand

PartitionSpec == Init /\ [][PartitionNext]_vars

(***************************************************************************)
(* /schedule and /scheduleoff one after the other, in either order, from   *)
(* the records that earlier commands have left.                            *)
(***************************************************************************)
\* match[1].trim().split(' ') of /\/schedule (.+)/
CommuteScheduleArgs ==
    { << <<"2", "2", ":", "0", "0">>, <<"5", "m">> >>,
      << <<"0", "9", ":", "0", "0">>, <<"5", "M">> >> }

\* match[1] of /\/scheduleoff (.+)/
CommuteScheduleOffArgs == {<<"0", "8", ":", "0", "0">>, <<" ", "1", "7", ":", "0", "0">>}

CommuteNext ==
    \/ \E c \in Chats, u \in Actors, a \in ArgsAnswers, args \in CommuteScheduleArgs :
          Schedule(c, u, a, args) /\ Followed(Update("schedule", c, u, args, 0), a)
    \/ \E c \in Chats, u \in Actors, a \in ArgsAnswers, arg \in CommuteScheduleOffArgs :
          ScheduleOff(c, u, a, arg) /\ Followed(Update("scheduleoff", c, u, <<arg>>, 0), a)

CommuteSpec == Init /\ [][CommuteNext]_vars

(***************************************************************************)
(* The process and the failures of the platform.  bot.onText calls the     *)
(* async callback and drops the promise it returns.  A rejected            *)
(* bot.getChatMember is caught inside isAdmin (src/index.js 60-66) and a   *)
(* rejected bot.deleteMessage by the .catch of the timeout callback        *)
(* (362-369).  bot.getChat is awaited outside any try, in isAdmin (55) and *)
(* in the handler (116): when it rejects, so does the callback's promise,  *)
(* and nothing handles it; no 'unhandledRejection' listener is installed.  *)
(* What follows is up to the runtime: it ends the process (the default     *)
(* since Node.js 15) or it warns and goes on.                              *)
(***************************************************************************)
\* the callback's promise is rejected: the getChat of isAdmin fails, or isAdmin
\* says no and the getChat that the handler repeats fails
Rejected(chatId, userId, auth) ==
    \/ auth.chat = "error"
    \/ (~isAdmin(chatId, userId, auth) /\ auth.chatAgain = "error")

\* the handler of update h ended in this step, the platform having answered
\* auth; a rejection that nothing handles may end the process
Answered(h, auth) ==
    /\ handled' = <<[update |-> h, auth |-> auth]>>
    /\ report' = NoReport
    /\ UNCHANGED <<inflight, ended>>
    /\ IF Rejected(h.chatId, h.userId, auth) THEN running' \in BOOLEAN ELSE UNCHANGED running

\* the platform's answers: all queries answered, getChatMember failing, the
\* first getChat failing, the repeated getChat failing
EngineAnswers ==
    {[chat |-> "group", member |-> "administrator", chatAgain |-> "group"],
     [chat |-> "group", member |-> "error", chatAgain |-> "group"],
     [chat |-> "error", member |-> "error", chatAgain |-> "error"],
     [chat |-> "group", member |-> "member", chatAgain |-> "error"]}

EngineCaptions == {undefined}

EngineNext ==
    \/ \E c \in Chats, u \in CommandUsers, a \in EngineAnswers, arg \in PartitionSetTimerArgs :
          running /\ SetTimer(c, u, a, arg) /\ Answered(Update("settimer", c, u, <<arg>>, 0), a)
    \/ \E c \in Chats, u \in CommandUsers, cap \in EngineCaptions :
          running /\ processMedia(c, u, cap) /\ NotACommand
    \/ \E t \in timers : running /\ TimerFires(t) /\ NotACommand
    \/ running /\ AdvanceTime /\ NotACommand

EngineSpec == Init /\ [][EngineNext]_vars

(***************************************************************************)
(* Everything that happens in a chat, each command followed: the six       *)
(* commands, the media messages, the clock and the timeout callbacks.      *)
(***************************************************************************)
\* match[1] of /\/settimer (.+)/
AllSetTimerArgs == {OFF, <<"1", "H">>, <<"0", "s">>}
\* match[1] of /\/scheduleoff (.+)/
AllScheduleOffArgs == {<<"0", "9", ":", "0", "0">>}

AllNext ==
    \/ \E c \in Chats, u \in CommandUsers, a \in ArgsAnswers, arg \in AllSetTimerArgs :
          SetTimer(c, u, a, arg) /\ Followed(Update("settimer", c, u, <<arg>>, 0), a)
    \/ \E c \in Chats, u \in CommandUsers, a \in ArgsAnswers, args \in PartitionScheduleArgs :
          Schedule(c, u, a, args) /\ Followed(Update("schedule", c, u, args, 0), a)
    \/ \E c \in Chats, u \in CommandUsers, a \in ArgsAnswers, arg \in AllScheduleOffArgs :
          ScheduleOff(c, u, a, arg) /\ Followed(Update("scheduleoff", c, u, <<arg>>, 0), a)
    \/ \E c \in Chats, u \in CommandUsers, a \in ArgsAnswers, r \in PartitionReplies :
          WhitelistHim(c, u, a, r) /\ Followed(Update("whitelist_him", c, u, <<>>, r), a)
    \/ \E c \in Chats, u \in CommandUsers, a \in ArgsAnswers, r \in PartitionReplies :
          RemoveHim(c, u, a, r) /\ Followed(Update("remove_him", c, u, <<>>, r), a)
    \/ \E c \in Chats, u \in CommandUsers, a \in ArgsAnswers :
          Status(c, u, a) /\ Ended(Update("status", c, u, <<>>, 0), a)
    \/ \E c \in Chats, u \in Users, cap \in EngineCaptions :
          processMedia(c, u, cap) /\ NotACommand
    \/ \E t \in timers : TimerFires(t) /\ NotACommand
    \/ AdvanceTime /\ NotACommand

AllSpec == Init /\ [][AllNext]_vars

(***************************************************************************)
(* /settimer and /schedule with durations of value zero among the valid    *)
(* ones.                                                                   *)
(***************************************************************************)
\* match[1] of /\/settimer (.+)/
ZeroSetTimerArgs ==
    {OFF, <<"1", "H">>, <<"5", "m">>, <<"0", "s">>, <<"0", "M">>, <<"0", "0", "h">>}

\* match[1].trim().split(' ') of /\/schedule (.+)/
ZeroScheduleArgs ==
    { << <<"2", "2", ":", "0", "0">>, <<"5", "m">> >>,
      << <<"0", "9", ":", "0", "0">>, <<"2", "M">> >>,
      << <<"2", "2", ":", "0", "0">>, <<"0", "s">> >>,
      << <<"2", "2", ":", "0", "0">>, <<"0", "M">> >>,
      << <<"2", "2", ":", "0", "0">>, <<"0", "0", "h">> >> }

ZeroNext ==
    \/ \E c \in Chats, u \in CommandUsers, a \in ArgsAnswers, arg \in ZeroSetTimerArgs :
          SetTimer(c, u, a, arg) /\ Followed(Update("settimer", c, u, <<arg>>, 0), a)
    \/ \E c \in Chats, u \in CommandUsers, a \in ArgsAnswers, args \in ZeroScheduleArgs :
          Schedule(c, u, a, args) /\ Followed(Update("schedule", c, u, args, 0), a)

ZeroSpec == Init /\ [][ZeroNext]_vars

(***************************************************************************)
(* /schedule and /scheduleoff with times of two digits, a colon and two    *)
(* digits that no clock shows.                                             *)
(***************************************************************************)
\* match[1].trim().split(' ') of /\/schedule (.+)/
RangeScheduleArgs ==
    { << <<"2", "2", ":", "0", "0">>, <<"5", "m">> >>,
      << <<"2", "4", ":", "0", "0">>, <<"5", "m">> >>,
      << <<"9", "9", ":", "9", "9">>, <<"5", "m">> >>,
      << <<"2", "3", ":", "6", "0">>, <<"5", "m">> >> }

\* match[1] of /\/scheduleoff (.+)/
RangeScheduleOffArgs ==
    {<<"0", "8", ":", "0", "0">>, <<"2", "4", ":", "0", "0">>, <<"9", "9", ":", "9", "9">>}

RangeNext ==
    \/ \E c \in Chats, u \in CommandUsers, a \in ArgsAnswers, args \in RangeScheduleArgs :
          Schedule(c, u, a, args) /\ Followed(Update("schedule", c, u, args, 0), a)
    \/ \E c \in Chats, u \in CommandUsers, a \in ArgsAnswers, arg \in RangeScheduleOffArgs :
          ScheduleOff(c, u, a, arg) /\ Followed(Update("scheduleoff", c, u, <<arg>>, 0), a)

RangeSpec == Init /\ [][RangeNext]_vars

(***************************************************************************)
(* Media messages whose caption holds more than one duration token.        *)
(***************************************************************************)
\* msg.caption
TokensCaptions ==
    { undefined,
      <<"0", "s", " ", "3", "0", "s">>,
      <<"1", "0", "s", " ", "3", "0", "S">>,
      <<"3", "0", "s", ",", "0", "h">>,
      <<"x", "1", "m", " ", "0", "M", " ", "2", "m">> }

TokensNext ==
    \/ \E c \in Chats, u \in CommandUsers, a \in ArgsAnswers, arg \in PartitionSetTimerArgs :
          SetTimer(c, u, a, arg) /\ Followed(Update("settimer", c, u, <<arg>>, 0), a)
    \/ \E c \in Chats, u \in Users, cap \in TokensCaptions :
          processMedia(c, u, cap) /\ NotACommand
    \/ \E t \in timers : TimerFires(t) /\ NotACommand
    \/ AdvanceTime /\ NotACommand

TokensSpec == Init /\ [][TokensNext]_vars

(***************************************************************************)
(* What the specification expects, stated without the program's parsers:   *)
(* the texts of the model's inputs are tabulated with their meaning.       *)
(***************************************************************************)
DurationTable ==
    { [text |-> <<"3", "0", "s">>, ms |-> 30000],
      [text |-> <<"2", "m">>, ms |-> 120000],
      [text |-> <<"5", "m">>, ms |-> 300000],
      [text |-> <<"1", "5", "m">>, ms |-> 900000],
      [text |-> <<"1", "h">>, ms |-> 3600000] }

IsSpecDuration(text) == \E r \in DurationTable : r.text = text
SpecMs(text) == (CHOOSE r \in DurationTable : r.text = text).ms

TimeTable ==
    { [text |-> <<"0", "8", ":", "0", "0">>, minute |-> 8 * 60],
      [text |-> <<"0", "9", ":", "0", "0">>, minute |-> 9 * 60],
      [text |-> <<"1", "7", ":", "0", "0">>, minute |-> 17 * 60],
      [text |-> <<"2", "2", ":", "0", "0">>, minute |-> 22 * 60] }

SpecMinute(text) == (CHOOSE r \in TimeTable : r.text = text).minute

\* the duration token a caption carries: <<>> when it has none, <<ms>> otherwise
CaptionTable ==
    { [caption |-> undefined, token |-> <<>>],
      [caption |-> <<"a", "3", "0", "s">>, token |-> <<>>],
      [caption |-> <<"0", "s">>, token |-> <<0>>],
      [caption |-> <<"c", "h", "e", "c", "k", " ", "t", "h", "i", "s", " ", "3", "0", "s">>,
       token |-> <<30000>>],
      [caption |-> <<"p", "i", "c", ":", "2", "M", " ">>, token |-> <<120000>>] }

SpecToken(cap) == (CHOOSE r \in CaptionTable : r.caption = cap).token
NoTokenCaptions == {cap \in Captions : SpecToken(cap) = <<>>}
ZeroCaptions == {cap \in Captions : SpecToken(cap) = <<0>>}
PositiveCaptions == Captions \ (NoTokenCaptions \cup ZeroCaptions)
SpecCaptionMs(cap) == SpecToken(cap)[1]

\* minutes since midnight on the GMT+6 wall clock
SpecMinuteNow == ((now \div 60000) + 6 * 60) % (24 * 60)

SpecWhitelisted(c, u) ==
    c \in DOMAIN chatWhitelists /\ \E i \in DOMAIN chatWhitelists[c] : chatWhitelists[c][i] = u

SpecGeneralTimerOff(c) == c \in DOMAIN chatTimers /\ chatTimers[c] = OFF
SpecGeneralTimerUnset(c) == c \notin DOMAIN chatTimers
SpecGeneralTimerDuration(c) == c \in DOMAIN chatTimers /\ IsSpecDuration(chatTimers[c])

\* the schedule has both startTime and activeDuration
SpecScheduleComplete(c) ==
    /\ c \in DOMAIN chatSchedules
    /\ chatSchedules[c].startTime # undefined
    /\ chatSchedules[c].deleteDuration # undefined

SpecEndSet(c) == c \in DOMAIN chatSchedules /\ chatSchedules[c].endTime # undefined

\* section 4.2 of the specification
SpecWindowActive(c) ==
    /\ SpecScheduleComplete(c)
    /\ LET s == SpecMinute(chatSchedules[c].startTime)
           cur == SpecMinuteNow
       IN  IF ~SpecEndSet(c) THEN cur >= s
           ELSE LET e == SpecMinute(chatSchedules[c].endTime)
                IN  IF s <= e THEN s <= cur /\ cur < e
                    ELSE cur >= s \/ cur < e

\* this step arms exactly one deletion, for the message just processed in chat c,
\* due ms milliseconds from now
ArmedWith(c, ms) ==
    /\ processed' = Append(processed, "armed")
    /\ \E t \in timers' :
          /\ t \notin timers
          /\ timers' = timers \cup {t}
          /\ t.chatId = c
          /\ t.messageId = Len(processed')
          /\ t.deleteDelayMs = ms
          /\ t.fireAt = now + ms

\* this step handles a media message
MediaStep == Len(processed') = Len(processed) + 1

\* this step arms nothing
NothingArmed == timers' = timers /\ deleteCalls' = deleteCalls

\* the step just taken handled a media message of chat c with a caption in caps
JustProcessed(c, caps) == msg # NoMsg /\ msg.chatId = c /\ msg.caption \in caps

\* the step just taken armed a deletion for its message, due in ms
JustArmed(c, ms) ==
    /\ msg # NoMsg
    /\ msg.chatId = c
    /\ ~SpecWhitelisted(c, msg.userId)
    /\ processed[msg.messageId] = "armed"
    /\ \E t \in timers :
          /\ t.chatId = c
          /\ t.messageId = msg.messageId
          /\ t.deleteDelayMs = ms
          /\ t.fireAt = now + ms

\* the number of deleteMessage calls issued for message i
CallsFor(i) == Cardinality({k \in 1..Len(deleteCalls) : deleteCalls[k].messageId = i})
PendingFor(i) == {t \in timers : t.messageId = i}

(***************************************************************************)
(* Timer resolution.                                                       *)
(***************************************************************************)
\* C1: a media message of a non-whitelisted author, in a chat whose general
\* timer is Off and whose schedule is absent or inactive, with a caption that
\* carries a positive duration token, is armed for deletion after the caption's
\* duration: the caption wins over Off.
C1_CaptionWinsOverOff ==
    [][MediaStep =>
          \A c \in Chats, u \in Users, cap \in PositiveCaptions :
             (/\ ~SpecWhitelisted(c, u)
              /\ SpecGeneralTimerOff(c)
              /\ ~SpecWindowActive(c)
              /\ processMedia(c, u, cap))
             => ArmedWith(c, SpecCaptionMs(cap))]_vars

\* the general timer is Off, a complete schedule is inactive, and a deletion was
\* just armed 30 s ahead from the caption "check this 30s"
C1_Witness ==
    \E c \in Chats :
        /\ SpecGeneralTimerOff(c)
        /\ SpecScheduleComplete(c)
        /\ ~SpecWindowActive(c)
        /\ JustProcessed(c, {<<"c", "h", "e", "c", "k", " ", "t", "h", "i", "s", " ", "3", "0", "s">>})
        /\ JustArmed(c, 30000)

\* C2: with no caption annotation, a complete schedule whose window is active
\* decides the delay (its activeDuration), whatever the general timer is.
C2_ActiveScheduleDecides ==
    [][MediaStep =>
          \A c \in Chats, u \in Users, cap \in NoTokenCaptions :
             (/\ ~SpecWhitelisted(c, u)
              /\ SpecWindowActive(c)
              /\ processMedia(c, u, cap))
             => ArmedWith(c, SpecMs(chatSchedules[c].deleteDuration))]_vars

\* the general timer is Off, the window is active, and a deletion was just armed
\* with the schedule's 5 minutes
C2_Witness ==
    \E c \in Chats :
        /\ SpecGeneralTimerOff(c)
        /\ SpecWindowActive(c)
        /\ JustProcessed(c, NoTokenCaptions)
        /\ JustArmed(c, 300000)

\* C3: with no caption annotation and no active schedule, a general timer set
\* to a duration d gives exactly the delay d.
C3_GeneralTimerDecides ==
    [][MediaStep =>
          \A c \in Chats, u \in Users, cap \in NoTokenCaptions :
             (/\ ~SpecWhitelisted(c, u)
              /\ ~SpecWindowActive(c)
              /\ SpecGeneralTimerDuration(c)
              /\ processMedia(c, u, cap))
             => ArmedWith(c, SpecMs(chatTimers[c]))]_vars

\* the general timer is 1h, a complete schedule is inactive, and a deletion was
\* just armed one hour ahead
C3_Witness ==
    \E c \in Chats :
        /\ c \in DOMAIN chatTimers
        /\ chatTimers[c] = <<"1", "h">>
        /\ SpecScheduleComplete(c)
        /\ ~SpecWindowActive(c)
        /\ JustProcessed(c, NoTokenCaptions)
        /\ JustArmed(c, 3600000)

\* C4: a message whose effective delay is Off (general timer Off, no caption
\* annotation, no active schedule) arms nothing, and no deletion is pending or
\* called for it in any later state.
C4_OffArmsNothing ==
    /\ [][MediaStep =>
             \A c \in Chats, u \in Users, cap \in NoTokenCaptions :
                (/\ ~SpecWhitelisted(c, u)
                 /\ SpecGeneralTimerOff(c)
                 /\ ~SpecWindowActive(c)
                 /\ processMedia(c, u, cap))
                => (NothingArmed /\ processed' = Append(processed, "off"))]_vars
    /\ [](\A i \in 1..Len(processed) :
             processed[i] = "off" => (PendingFor(i) = {} /\ CallsFor(i) = 0))

\* a message was resolved to Off, and the clock has since passed the instant at
\* which the default delay would have expired
C4_Witness ==
    \E i \in 1..Len(processed) :
        /\ processed[i] = "off"
        /\ now >= StartInstant + 900000
        /\ PendingFor(i) = {} /\ CallsFor(i) = 0

\* no configuration of any kind is stored for chat c
Unconfigured(c) ==
    /\ c \notin DOMAIN chatTimers
    /\ c \notin DOMAIN chatSchedules
    /\ c \notin DOMAIN chatWhitelists

\* C5: a media message without a caption token, in a chat with no configuration,
\* is armed with the system default of 15 minutes (900000 ms); a deletion call
\* is issued only for an armed timer whose delay has elapsed, it is then issued,
\* and never more than once per message.
C5_DefaultDelayThenOneCall ==
    /\ [][MediaStep =>
             \A c \in Chats, u \in Users, cap \in NoTokenCaptions :
                (Unconfigured(c) /\ processMedia(c, u, cap)) => ArmedWith(c, 900000)]_vars
    /\ [][deleteCalls' # deleteCalls =>
             \E t \in timers :
                /\ now >= t.fireAt
                /\ timers' = timers \ {t}
                /\ deleteCalls' = Append(deleteCalls, [chatId |-> t.chatId, messageId |-> t.messageId])]_vars
    /\ [](\A i \in 1..Len(processed) :
             /\ CallsFor(i) <= 1
             /\ PendingFor(i) # {} => CallsFor(i) = 0
             /\ (processed[i] = "armed" /\ PendingFor(i) = {}) => CallsFor(i) = 1)
    /\ \A i \in 1..MaxUpdates :
          (\E t \in timers : t.messageId = i /\ t.deleteDelayMs = 900000)
             ~> (PendingFor(i) = {} /\ CallsFor(i) = 1)

\* the chat has no configuration, its one media message was armed with the
\* default and, the 15 minutes over, exactly one deletion call was issued for it
C5_Witness ==
    /\ \A c \in Chats : Unconfigured(c)
    /\ Len(processed) = 1 /\ processed[1] = "armed"
    /\ timers = {}
    /\ now >= StartInstant + 900000
    /\ deleteCalls = <<[chatId |-> 1, messageId |-> 1]>>

\* what a message without caption annotation gets in chat c: the active schedule's
\* duration, else the general timer (nothing when Off), else the default
CaptionlessOutcome(c) ==
    IF SpecWindowActive(c) THEN ArmedWith(c, SpecMs(chatSchedules[c].deleteDuration))
    ELSE IF SpecGeneralTimerOff(c) THEN NothingArmed
    ELSE IF SpecGeneralTimerDuration(c) THEN ArmedWith(c, SpecMs(chatTimers[c]))
    ELSE ArmedWith(c, 900000)

C7_CaptionArmsForAnyAuthor ==
    [][MediaStep =>
          \A c \in Chats, u \in Users, cap \in PositiveCaptions :
             processMedia(c, u, cap) => ArmedWith(c, SpecCaptionMs(cap))]_vars

\* C7, amended: a valid positive caption duration is armed for every author who
\* is not on the chat's whitelist, whatever the chat's timer and schedule; for a
\* whitelisted author nothing is armed, caption or not.
C7_CaptionArmsUnlessWhitelisted ==
    [][MediaStep =>
          \A c \in Chats, u \in Users, cap \in PositiveCaptions :
             processMedia(c, u, cap) =>
                IF SpecWhitelisted(c, u)
                THEN NothingArmed /\ processed' = Append(processed, "whitelisted")
                ELSE ArmedWith(c, SpecCaptionMs(cap))]_vars

\* a whitelisted author's message with a positive caption duration was just
\* processed, and nothing is armed for it
C7_Witness ==
    \E c \in Chats :
        /\ JustProcessed(c, PositiveCaptions)
        /\ SpecWhitelisted(c, msg.userId)
        /\ processed[msg.messageId] = "whitelisted"
        /\ PendingFor(msg.messageId) = {}

\* C8: a media message whose author is whitelisted when it is processed arms
\* nothing, and no deletion is pending or called for it in any later state:
\* timers are armed only by the step that processes their own message, so a
\* later removal from the whitelist arms nothing.
C8_WhitelistedNeverDeleted ==
    /\ [][MediaStep =>
             \A c \in Chats, u \in Users, cap \in Captions :
                (SpecWhitelisted(c, u) /\ processMedia(c, u, cap))
                => (NothingArmed /\ processed' = Append(processed, "whitelisted"))]_vars
    /\ [][\A t \in timers' \ timers : MediaStep /\ t.messageId = Len(processed')]_vars
    /\ [](\A i \in 1..Len(processed) :
             processed[i] = "whitelisted" => (PendingFor(i) = {} /\ CallsFor(i) = 0))

\* a whitelisted author's message was processed, the author has since been
\* removed from the whitelist, time has passed, and nothing is armed or called
C8_Witness ==
    \E c \in Chats, i \in 1..Len(processed) :
        /\ processed[i] = "whitelisted"
        /\ c \in DOMAIN chatWhitelists /\ chatWhitelists[c] = <<>>
        /\ now >= StartInstant + 900000
        /\ PendingFor(i) = {} /\ CallsFor(i) = 0

(***************************************************************************)
(* The schedule window.                                                    *)
(***************************************************************************)
SpecStart(c) == SpecMinute(chatSchedules[c].startTime)
SpecEnd(c) == SpecMinute(chatSchedules[c].endTime)

\* what a message without caption annotation gets when the window is not active
OutsideWindowOutcome(c) ==
    IF SpecGeneralTimerOff(c) THEN NothingArmed
    ELSE IF SpecGeneralTimerDuration(c) THEN ArmedWith(c, SpecMs(chatTimers[c]))
    ELSE ArmedWith(c, 900000)

\* C9: a complete schedule whose start s is later than its end e wraps over
\* midnight: it is active at minute c iff c >= s or c < e (22:00-08:00 is active
\* at 23:00 and 03:00, inactive at 12:00), and a message without annotation gets
\* the schedule's duration exactly then.
C9_OvernightWindow ==
    /\ [](\A c \in Chats :
             (SpecScheduleComplete(c) /\ SpecEndSet(c) /\ SpecStart(c) > SpecEnd(c))
             => (isActiveSchedule(chatSchedules[c], now)
                    <=> (SpecMinuteNow >= SpecStart(c) \/ SpecMinuteNow < SpecEnd(c))))
    /\ [][MediaStep =>
             \A c \in Chats, u \in Users, cap \in NoTokenCaptions :
                (/\ ~SpecWhitelisted(c, u)
                 /\ SpecScheduleComplete(c) /\ SpecEndSet(c)
                 /\ SpecStart(c) > SpecEnd(c)
                 /\ processMedia(c, u, cap))
                => IF SpecMinuteNow >= SpecStart(c) \/ SpecMinuteNow < SpecEnd(c)
                   THEN ArmedWith(c, SpecMs(chatSchedules[c].deleteDuration))
                   ELSE OutsideWindowOutcome(c)]_vars

\* the window is 22:00-08:00, it is 03:00 of the next day, and a message without
\* annotation was just armed with the schedule's 5 minutes
C9_Witness ==
    \E c \in Chats :
        /\ SpecScheduleComplete(c) /\ SpecEndSet(c)
        /\ SpecStart(c) = 22 * 60 /\ SpecEnd(c) = 8 * 60
        /\ now = LocalInstant(1, 3, 0)
        /\ JustProcessed(c, NoTokenCaptions)
        /\ JustArmed(c, 300000)

\* C10: a complete schedule whose start s is not later than its end e is active
\* at minute c iff s <= c < e, start inclusive and end exclusive (09:00-17:00 is
\* active at 09:00, inactive at 17:00 and at 08:59), and a message without
\* annotation gets the schedule's duration exactly then.
C10_SameDayWindow ==
    /\ [](\A c \in Chats :
             (SpecScheduleComplete(c) /\ SpecEndSet(c) /\ SpecStart(c) <= SpecEnd(c))
             => (isActiveSchedule(chatSchedules[c], now)
                    <=> (SpecStart(c) <= SpecMinuteNow /\ SpecMinuteNow < SpecEnd(c))))
    /\ [][MediaStep =>
             \A c \in Chats, u \in Users, cap \in NoTokenCaptions :
                (/\ ~SpecWhitelisted(c, u)
                 /\ SpecScheduleComplete(c) /\ SpecEndSet(c)
                 /\ SpecStart(c) <= SpecEnd(c)
                 /\ processMedia(c, u, cap))
                => IF SpecStart(c) <= SpecMinuteNow /\ SpecMinuteNow < SpecEnd(c)
                   THEN ArmedWith(c, SpecMs(chatSchedules[c].deleteDuration))
                   ELSE OutsideWindowOutcome(c)]_vars

\* the window is 09:00-17:00, it is 09:00 sharp, and a message without
\* annotation was just armed with the schedule's 5 minutes
C10_Witness ==
    \E c \in Chats :
        /\ SpecScheduleComplete(c) /\ SpecEndSet(c)
        /\ SpecStart(c) = 9 * 60 /\ SpecEnd(c) = 17 * 60
        /\ now = LocalInstant(0, 9, 0)
        /\ JustProcessed(c, NoTokenCaptions)
        /\ JustArmed(c, 300000)

\* the schedule of chat c is complete and has no end time
OpenEnded(c) == SpecScheduleComplete(c) /\ ~SpecEndSet(c)

\* C11 as the specification states it: a complete schedule without end time is
\* open-ended; once the window is active it stays active at every later time,
\* also past midnight, for as long as the schedule record is not changed.
C11_OpenEndedStaysActive ==
    [][\A c \in Chats :
          (/\ OpenEnded(c)
           /\ isActiveSchedule(chatSchedules[c], now)
           /\ chatSchedules' = chatSchedules)
          => isActiveSchedule(chatSchedules[c], now')]_vars

\* what the program does about C11: without end time the window is active from
\* the start time to the end of the day on the GMT+6 clock, every day, and a
\* message without annotation gets the schedule's duration exactly then.
C11_OpenEndedUntilMidnight ==
    /\ [](\A c \in Chats :
             OpenEnded(c)
             => (isActiveSchedule(chatSchedules[c], now) <=> SpecMinuteNow >= SpecStart(c)))
    /\ [][MediaStep =>
             \A c \in Chats, u \in Users, cap \in NoTokenCaptions :
                (~SpecWhitelisted(c, u) /\ OpenEnded(c) /\ processMedia(c, u, cap))
                => IF SpecMinuteNow >= SpecStart(c)
                   THEN ArmedWith(c, SpecMs(chatSchedules[c].deleteDuration))
                   ELSE OutsideWindowOutcome(c)]_vars

\* the schedule starts at 22:00 and has no end time, the clock has passed 23:00
\* and shows 03:00 of the next day, and a message without annotation was just
\* armed with the default of 15 minutes, not with the schedule's 5 minutes
C11_Witness ==
    \E c \in Chats :
        /\ OpenEnded(c)
        /\ SpecStart(c) = 22 * 60
        /\ SpecGeneralTimerUnset(c)
        /\ now = LocalInstant(1, 3, 0)
        /\ JustProcessed(c, NoTokenCaptions)
        /\ JustArmed(c, 900000)

\* C12: a schedule record that lacks the start time or the duration (one that
\* only scheduleoff has written) is never active: a message without annotation
\* gets the general timer, or the default, whatever the clock shows.
C12_IncompleteScheduleInactive ==
    /\ [](\A c \in Chats :
             (c \in DOMAIN chatSchedules /\ ~SpecScheduleComplete(c))
             => scheduleTimer(null, c, now) = null)
    /\ [][MediaStep =>
             \A c \in Chats, u \in Users, cap \in NoTokenCaptions :
                (/\ ~SpecWhitelisted(c, u)
                 /\ c \in DOMAIN chatSchedules
                 /\ ~SpecScheduleComplete(c)
                 /\ processMedia(c, u, cap))
                => OutsideWindowOutcome(c)]_vars

\* the chat's schedule record has an end time only, the general timer is one
\* hour, and a message without annotation was just armed with that hour
C12_Witness ==
    \E c \in Chats :
        /\ c \in DOMAIN chatSchedules
        /\ ~SpecScheduleComplete(c)
        /\ SpecEndSet(c)
        /\ SpecGeneralTimerDuration(c)
        /\ JustProcessed(c, NoTokenCaptions)
        /\ JustArmed(c, 3600000)

\* C13: a complete schedule whose start time equals its end time is active at
\* no minute of the day, the start minute included: a message without
\* annotation gets the general timer or the default.
C13_ZeroWidthWindow ==
    /\ [](\A c \in Chats :
             (SpecScheduleComplete(c) /\ SpecEndSet(c) /\ SpecStart(c) = SpecEnd(c))
             => ~isActiveSchedule(chatSchedules[c], now))
    /\ [][MediaStep =>
             \A c \in Chats, u \in Users, cap \in NoTokenCaptions :
                (/\ ~SpecWhitelisted(c, u)
                 /\ SpecScheduleComplete(c) /\ SpecEndSet(c)
                 /\ SpecStart(c) = SpecEnd(c)
                 /\ processMedia(c, u, cap))
                => OutsideWindowOutcome(c)]_vars

\* the window is 09:00-09:00, it is 09:00 sharp, and a message without
\* annotation was just armed with the default of 15 minutes
C13_Witness ==
    \E c \in Chats :
        /\ SpecScheduleComplete(c) /\ SpecEndSet(c)
        /\ SpecStart(c) = 9 * 60 /\ SpecEnd(c) = 9 * 60
        /\ now = LocalInstant(0, 9, 0)
        /\ JustProcessed(c, NoTokenCaptions)
        /\ JustArmed(c, 900000)

(***************************************************************************)
(* The Duration Codec.                                                     *)
(***************************************************************************)
SpecDigitValue ==
    [d \in {"0", "1", "2", "3", "4", "5", "6", "7", "8", "9"} |->
        IF d = "0" THEN 0 ELSE IF d = "1" THEN 1 ELSE IF d = "2" THEN 2
        ELSE IF d = "3" THEN 3 ELSE IF d = "4" THEN 4 ELSE IF d = "5" THEN 5
        ELSE IF d = "6" THEN 6 ELSE IF d = "7" THEN 7 ELSE IF d = "8" THEN 8 ELSE 9]

SpecUnitMs ==
    [u \in {"s", "S", "m", "M", "h", "H"} |->
        IF u \in {"s", "S"} THEN 1000 ELSE IF u \in {"m", "M"} THEN 60000 ELSE 3600000]

\* the decimal integer a text of digits denotes, read from the left
RECURSIVE SpecDecimal(_, _)
SpecDecimal(ds, acc) ==
    IF ds = <<>> THEN acc ELSE SpecDecimal(Tail(ds), 10 * acc + SpecDigitValue[Head(ds)])

\* x is a text made of a decimal integer followed by one unit letter
SpecDurationText(x) ==
    /\ x \in DurationStrings
    /\ Len(x) >= 2
    /\ \A i \in 1..(Len(x) - 1) : x[i] \in DOMAIN SpecDigitValue
    /\ x[Len(x)] \in DOMAIN SpecUnitMs

SpecParse(x) ==
    IF SpecDurationText(x)
    THEN <<SpecDecimal(SubSeq(x, 1, Len(x) - 1), 0) * SpecUnitMs[x[Len(x)]]>>
    ELSE <<>>

\* C14: parseDurationToMs gives n*1000, n*60000 or n*3600000 for a text made of
\* a decimal integer n (0 included, giving 0) and one unit letter s, m or h in
\* either case, and null for every other argument: the empty text, a value
\* that is not a string, a text without digits, another unit, or a text with
\* anything before or after.
C14_ParseDuration ==
    codec.done => codec.result = SpecParse(codec.durationStr)

\* "0s" was parsed, to 0 and not to null
C14_Witness ==
    /\ codec.done
    /\ codec.durationStr = <<"0", "s">>
    /\ codec.result = <<0>>

(***************************************************************************)
(* The configuration commands.                                             *)
(***************************************************************************)
\* the platform says the chat is private, or a group of which the actor is an
\* administrator or the creator
SpecAdmin(a) ==
    \/ a.chat = "private"
    \/ (a.chat = "group" /\ a.member \in {"administrator", "creator"})

\* this step handles a command
CommandStep == updateCount' = updateCount + 1 /\ msg' = NoMsg

\* how often user r occurs in the whitelist wl
Occurrences(wl, r) == Cardinality({i \in DOMAIN wl : wl[i] = r})

SpecWhitelistAfter(c) == IF c \in DOMAIN chatWhitelists' THEN chatWhitelists'[c] ELSE <<>>

\* C15: adding a user who is not on the chat's whitelist reports that he was
\* added and leaves him on it exactly once; adding him again reports that he is
\* already on it and changes nothing; removing a user who is not on it (also in
\* a chat that has no whitelist yet) reports that he is not on it and changes
\* nothing.  No whitelist ever holds an id twice.
C15_WhitelistIdempotent ==
    /\ [][CommandStep =>
             \A c \in Chats, u \in CommandUsers, a \in AuthInputs, r \in Users :
                (SpecAdmin(a) /\ WhitelistHim(c, u, a, r))
                => IF SpecWhitelisted(c, r)
                   THEN sent' = "already on the whitelist" /\ chatWhitelists' = chatWhitelists
                   ELSE /\ sent' = "added to the whitelist"
                        /\ Occurrences(SpecWhitelistAfter(c), r) = 1
                        /\ \A o \in Users \ {r} :
                              Occurrences(SpecWhitelistAfter(c), o) =
                                 IF SpecWhitelisted(c, o) THEN 1 ELSE 0]_vars
    /\ [][CommandStep =>
             \A c \in Chats, u \in CommandUsers, a \in AuthInputs, r \in Users :
                (SpecAdmin(a) /\ ~SpecWhitelisted(c, r) /\ RemoveHim(c, u, a, r))
                => sent' = "not on the whitelist" /\ chatWhitelists' = chatWhitelists]_vars
    /\ [](\A c \in DOMAIN chatWhitelists, r \in Users : Occurrences(chatWhitelists[c], r) <= 1)

\* the same user was added twice in a row: the second command answered that he
\* is already on the whitelist, which holds him once
C15_Witness ==
    \E c \in Chats :
        /\ updateCount = 2
        /\ sent = "already on the whitelist"
        /\ c \in DOMAIN chatWhitelists
        /\ chatWhitelists[c] = <<2>>

\* the valid arguments of schedule among the model's inputs, and what they mean
ValidScheduleArgs ==
    { [args |-> << <<"2", "2", ":", "0", "0">>, <<"5", "m">> >>,
       start |-> <<"2", "2", ":", "0", "0">>, duration |-> <<"5", "m">>],
      [args |-> << <<"0", "9", ":", "0", "0">>, <<"5", "M">> >>,
       start |-> <<"0", "9", ":", "0", "0">>, duration |-> <<"5", "m">>] }

\* the valid arguments of scheduleoff among the model's inputs
ValidScheduleOffArgs ==
    { [arg |-> <<"0", "8", ":", "0", "0">>, end |-> <<"0", "8", ":", "0", "0">>],
      [arg |-> <<"0", "9", ":", "0", "0">>, end |-> <<"0", "9", ":", "0", "0">>],
      [arg |-> <<" ", "1", "7", ":", "0", "0">>, end |-> <<"1", "7", ":", "0", "0">>] }

\* a field of the chat's schedule record before the step; undefined when unset
SpecField(c, f) == IF c \in DOMAIN chatSchedules THEN chatSchedules[c][f] ELSE undefined

\* C16: a successful schedule command (one answered with the schedule's
\* confirmation) sets the start time and the duration and leaves the end time as
\* it was; a successful scheduleoff command sets the end time and leaves the
\* start time and the duration as they were.
C16_ScheduleFieldwiseMerge ==
    /\ [][(CommandStep /\ sent' = "timer scheduled") =>
             \A c \in Chats, u \in CommandUsers, a \in AuthInputs, v \in ValidScheduleArgs :
                (SpecAdmin(a) /\ Schedule(c, u, a, v.args))
                => /\ c \in DOMAIN chatSchedules'
                   /\ chatSchedules'[c].startTime = v.start
                   /\ chatSchedules'[c].deleteDuration = v.duration
                   /\ chatSchedules'[c].endTime = SpecField(c, "endTime")]_vars
    /\ [][(CommandStep /\ sent' = "timer will turn off") =>
             \A c \in Chats, u \in CommandUsers, a \in AuthInputs, v \in ValidScheduleOffArgs :
                (SpecAdmin(a) /\ ScheduleOff(c, u, a, v.arg))
                => /\ c \in DOMAIN chatSchedules'
                   /\ chatSchedules'[c].endTime = v.end
                   /\ chatSchedules'[c].startTime = SpecField(c, "startTime")
                   /\ chatSchedules'[c].deleteDuration = SpecField(c, "deleteDuration")]_vars

\* scheduleoff 08:00 came first and schedule 22:00 5m second: the record holds
\* the three fields
C16_Witness ==
    \E c \in Chats :
        /\ updateCount = 2
        /\ sent = "timer scheduled"
        /\ c \in DOMAIN chatSchedules
        /\ chatSchedules[c].startTime = <<"2", "2", ":", "0", "0">>
        /\ chatSchedules[c].deleteDuration = <<"5", "m">>
        /\ chatSchedules[c].endTime = <<"0", "8", ":", "0", "0">>

(***************************************************************************)
(* The armed deletions.                                                    *)
(***************************************************************************)
\* C17: an armed deletion is fixed: no command step (settimer, off included,
\* schedule, scheduleoff, whitelist, remove) takes a deletion away or changes
\* it, and a deletion leaves the armed ones only by its own call, issued when
\* the delay it was armed with has elapsed, for its own chat and message.
C17_ArmedDeletionFixed ==
    /\ [][CommandStep => (timers' = timers /\ deleteCalls' = deleteCalls)]_vars
    /\ [][\A t \in timers :
             t \notin timers'
             => /\ now >= t.fireAt
                /\ deleteCalls' = Append(deleteCalls, [chatId |-> t.chatId, messageId |-> t.messageId])]_vars
    /\ [](\A t \in timers : t.fireAt <= now + t.deleteDelayMs)

\* a message without annotation was armed with 15 minutes, the chat's timer was
\* turned off afterwards, the 15 minutes have passed and the deletion is still
\* armed, due to be called
C17_Witness ==
    \E c \in Chats, t \in timers :
        /\ SpecGeneralTimerOff(c)
        /\ t.chatId = c
        /\ t.deleteDelayMs = 900000
        /\ now >= t.fireAt

\* the media events so far that resolved to a positive delay
NumArmed == Cardinality({i \in 1..Len(processed) : processed[i] = "armed"})

\* C18: armed deletions are never merged: every media event that resolves to a
\* positive delay arms one more deletion, also when a deletion for the same
\* chat and message id is pending and due at the same instant; k such events
\* make k armed deletions, each of which ends in one call, k calls in all.
C18_NoDeduplication ==
    /\ [](Cardinality(timers) + Len(deleteCalls) = NumArmed)
    /\ [][(MediaStep /\ processed'[Len(processed')] = "armed")
            => Cardinality(timers') = Cardinality(timers) + 1]_vars
    /\ <>[](timers = {} /\ Len(deleteCalls) = NumArmed)

\* two deletions for the same chat and message id, due at the same instant, are
\* armed side by side
C18_Witness ==
    \E t1 \in timers, t2 \in timers :
        /\ t1 # t2
        /\ t1.chatId = t2.chatId
        /\ t1.messageId = t2.messageId
        /\ t1.fireAt = t2.fireAt

\* C19: an armed deletion makes one deletion call at most: the step that issues
\* the call discards the deletion whatever the call's outcome is (fulfilled,
\* rejected by the platform, rejected otherwise), so no message ever has a
\* second call and none has a call and a pending deletion at once.
C19_AtMostOneAttempt ==
    /\ [][Len(deleteCalls') > Len(deleteCalls)
            => \E t \in timers :
                  /\ timers' = timers \ {t}
                  /\ deleteCalls' = Append(deleteCalls, [chatId |-> t.chatId, messageId |-> t.messageId])
                  /\ <<logged'.level, logged'.kind>> \in
                        {<<"log", "Successfully deleted">>,
                         <<"error", "API Error">>,
                         <<"error", "Network/Other Error">>}]_vars
    /\ [](\A i \in 1..Len(processed) :
             /\ CallsFor(i) <= 1
             /\ (CallsFor(i) = 1 => PendingFor(i) = {}))

\* the deletion call for message 1 was just rejected by the platform: the call
\* is the only one and nothing is pending for the message
C19_Witness ==
    /\ logged.level = "error"
    /\ logged.kind = "API Error"
    /\ Len(processed) >= 1
    /\ processed[1] = "armed"
    /\ CallsFor(1) = 1
    /\ PendingFor(1) = {}

(***************************************************************************)
(* Authorization.                                                          *)
(***************************************************************************)
\* the platform says the chat is a group and the actor an ordinary member of it
SpecGroupMember == {a \in AuthInputs : a.chat = "group" /\ a.member = "member"}

\* the platform says the chat is a group and the actor its creator or an
\* administrator
SpecGroupAdmin == {a \in AuthInputs : a.chat = "group" /\ a.member \in {"administrator", "creator"}}

\* the valid arguments of settimer among the model's inputs, and what is stored
ValidSetTimerArgs ==
    { [arg |-> <<"o", "f", "f">>, stored |-> <<"o", "f", "f">>],
      [arg |-> <<"1", "H">>, stored |-> <<"1", "h">>],
      [arg |-> <<"1", "5", "m">>, stored |-> <<"1", "5", "m">>] }

\* C20: in a group, a settimer, schedule, scheduleoff, whitelist or remove
\* command of an actor who is an ordinary member changes neither the general
\* timer nor the schedule nor the whitelist; the same command with valid
\* arguments of an administrator or the creator is applied.
C20_GroupCommandsNeedAdmin ==
    /\ [][config' # config =>
             \A c \in Chats, u \in CommandUsers, a \in SpecGroupMember :
                /\ \A arg \in SetTimerArgs : ~SetTimer(c, u, a, arg)
                /\ \A args \in ScheduleArgs : ~Schedule(c, u, a, args)
                /\ \A arg \in ScheduleOffArgs : ~ScheduleOff(c, u, a, arg)
                /\ \A r \in Users : ~WhitelistHim(c, u, a, r) /\ ~RemoveHim(c, u, a, r)]_vars
    /\ [][(CommandStep /\ sent' \in {"timer is now OFF", "timer set"}) =>
             \A c \in Chats, u \in CommandUsers, a \in SpecGroupAdmin, v \in ValidSetTimerArgs :
                SetTimer(c, u, a, v.arg)
                => (c \in DOMAIN chatTimers' /\ chatTimers'[c] = v.stored)]_vars
    /\ [][(CommandStep /\ sent' = "timer scheduled") =>
             \A c \in Chats, u \in CommandUsers, a \in SpecGroupAdmin, v \in ValidScheduleArgs :
                Schedule(c, u, a, v.args)
                => /\ c \in DOMAIN chatSchedules'
                   /\ chatSchedules'[c].startTime = v.start
                   /\ chatSchedules'[c].deleteDuration = v.duration]_vars
    /\ [][(CommandStep /\ sent' = "timer will turn off") =>
             \A c \in Chats, u \in CommandUsers, a \in SpecGroupAdmin, v \in ValidScheduleOffArgs :
                ScheduleOff(c, u, a, v.arg)
                => (c \in DOMAIN chatSchedules' /\ chatSchedules'[c].endTime = v.end)]_vars
    /\ [][(CommandStep /\ chatWhitelists' # chatWhitelists) =>
             \A c \in Chats, u \in CommandUsers, a \in SpecGroupAdmin, r \in Users :
                /\ WhitelistHim(c, u, a, r) => Occurrences(SpecWhitelistAfter(c), r) = 1
                /\ RemoveHim(c, u, a, r) => Occurrences(SpecWhitelistAfter(c), r) = 0]_vars
    /\ [][(CommandStep /\ sent' = NoReply) => config' = config]_vars

\* two commands were handled: one set the general timer to one hour, the other
\* was ignored without a reply and changed nothing
C20_Witness ==
    \E c \in Chats :
        /\ updateCount = 2
        /\ now = StartInstant
        /\ processed = <<>>
        /\ sent = NoReply
        /\ chatTimers = (c :> <<"1", "h">>)
        /\ chatSchedules = EmptyMap
        /\ chatWhitelists = EmptyMap

(***************************************************************************)
(* The authorization gate, on commands followed one by one.                *)
(***************************************************************************)
\* the update and the platform's answers recorded by the step just taken
HandledUpdate == handled'[1].update
HandledAuth == handled'[1].auth

\* the chat is a group and the membership query fails
SpecQueryFails(a) == a.chat = "group" /\ a.member = "error"

SpecApplied(h) ==
    LET c == h.chatId
    IN  CASE h.cmd = "settimer" ->
               \E v \in ValidSetTimerArgs :
                  v.arg = h.args[1] /\ c \in DOMAIN chatTimers' /\ chatTimers'[c] = v.stored
          [] h.cmd = "schedule" ->
               \E v \in ValidScheduleArgs :
                  /\ v.args = h.args
                  /\ c \in DOMAIN chatSchedules'
                  /\ chatSchedules'[c].startTime = v.start
                  /\ chatSchedules'[c].deleteDuration = v.duration
          [] h.cmd = "scheduleoff" ->
               \E v \in ValidScheduleOffArgs :
                  v.arg = h.args[1] /\ c \in DOMAIN chatSchedules' /\ chatSchedules'[c].endTime = v.end
          [] h.cmd = "whitelist_him" -> Occurrences(SpecWhitelistAfter(c), h.replyTo) = 1
          [] h.cmd = "remove_him" -> Occurrences(SpecWhitelistAfter(c), h.replyTo) = 0

\* C22: in a private chat every mutating command with valid arguments is
\* answered and applied to the chat's configuration, whoever sends it and
\* whatever the platform would answer to a membership query.
C22_PrivateChatPermits ==
    [][(handled' # NoUpdate /\ HandledAuth.chat = "private") =>
          /\ isAdmin(HandledUpdate.chatId, HandledUpdate.userId, HandledAuth)
          /\ sent' # NoReply
          /\ SpecApplied(HandledUpdate)]_vars

\* a /schedule command of actor 2 in a private chat was handled and is stored,
\* though a membership query would have failed
C22_Witness ==
    \E c \in Chats :
        /\ handled # NoUpdate
        /\ handled[1].update.cmd = "schedule"
        /\ handled[1].update.userId = 2
        /\ handled[1].auth.chat = "private"
        /\ handled[1].auth.member = "error"
        /\ c \in DOMAIN chatSchedules
        /\ chatSchedules[c].startTime = <<"2", "2", ":", "0", "0">>
        /\ chatSchedules[c].deleteDuration = <<"5", "m">>
        /\ sent = "timer scheduled"

\* the followed command carries valid arguments
SpecValidArgs(h) ==
    CASE h.cmd = "settimer" -> \E v \in ValidSetTimerArgs : v.arg = h.args[1]
      [] h.cmd = "schedule" -> \E v \in ValidScheduleArgs : v.args = h.args
      [] h.cmd = "scheduleoff" -> \E v \in ValidScheduleOffArgs : v.arg = h.args[1]
      [] OTHER -> TRUE

\* the message was sent under the group's own identity
SpecAnonymous(m) == m.chatType = "group" /\ m.senderChat = m.chatId

SpecMalformed ==
    { [cmd |-> "settimer", args |-> << <<"5", "x">> >>],
      [cmd |-> "settimer", args |-> << <<"1", "5">> >>],
      [cmd |-> "settimer", args |-> << <<"h">> >>],
      [cmd |-> "settimer", args |-> << <<"1", " ", "h">> >>],
      [cmd |-> "schedule", args |-> << <<"2", "2", ":", "0", "0">> >>],
      [cmd |-> "schedule", args |-> << <<"2", "2", ":", "0", "0">>, <<>>, <<"5", "m">> >>],
      [cmd |-> "schedule", args |-> << <<"8", "a", "m">>, <<"5", "m">> >>],
      [cmd |-> "schedule", args |-> << <<"9", ":", "0", "0">>, <<"5", "m">> >>],
      [cmd |-> "schedule", args |-> << <<"2", "2", ":", "0", "0">>, <<"5", "x">> >>],
      [cmd |-> "scheduleoff", args |-> << <<"8", "a", "m">> >>],
      [cmd |-> "scheduleoff", args |-> << <<"9", ":", "0", "0">> >>],
      [cmd |-> "scheduleoff", args |-> << <<"0", "8", ":", "0", "0", ":", "0", "0">> >>] }

\* the replies that reject a command for its arguments
SpecRejections ==
    {"invalid duration format", "invalid format", "invalid time or duration format",
     "invalid time format"}

\* C24: a settimer, schedule or scheduleoff command of an actor who passes the
\* gate, whose duration or time argument is malformed or, for schedule, whose
\* number of arguments is not two, is answered with a rejection and leaves the
\* general timer and the schedule records as they were; no schedule record is
\* created for a chat that had none.
C24_MalformedRejected ==
    [][(/\ handled' # NoUpdate
        /\ SpecAdmin(HandledAuth)
        /\ [cmd |-> HandledUpdate.cmd, args |-> HandledUpdate.args] \in SpecMalformed) =>
          /\ sent' \in SpecRejections
          /\ chatTimers' = chatTimers
          /\ chatSchedules' = chatSchedules]_vars

\* the general timer is one hour and no schedule is stored; an administrator's
\* /schedule 8am 5m was rejected
C24_Witness ==
    \E c \in Chats :
        /\ handled # NoUpdate
        /\ handled[1].update.cmd = "schedule"
        /\ handled[1].update.args = << <<"8", "a", "m">>, <<"5", "m">> >>
        /\ handled[1].auth.member = "administrator"
        /\ sent = "invalid time or duration format"
        /\ chatTimers = (c :> <<"1", "h">>)
        /\ chatSchedules = EmptyMap

(***************************************************************************)
(* The status report.                                                      *)
(***************************************************************************)
\* report r shows chat c's general timer, or the default when none is stored
SpecReportsTimer(r, c) ==
    IF SpecGeneralTimerOff(c) THEN r.generalTimer = <<"OFF">>
    ELSE r.generalTimer =
             <<"Deletes after ">> \o (IF SpecGeneralTimerUnset(c) THEN <<"1", "5", "m">>
                                      ELSE chatTimers[c])

\* report r shows how many users chat c's whitelist holds
SpecReportsWhitelist(r, c) ==
    r.whitelisted = Cardinality({u \in Users \cup Actors : SpecWhitelisted(c, u)})

\* report r shows every field that is set in chat c's schedule record
SpecReportsStoredFields(r, c) ==
    c \in DOMAIN chatSchedules =>
        /\ chatSchedules[c].startTime # undefined =>
               r.schedule[1] = chatSchedules[c].startTime
        /\ chatSchedules[c].deleteDuration # undefined =>
               Len(r.schedule) >= 2 /\ r.schedule[2] = chatSchedules[c].deleteDuration
        /\ chatSchedules[c].endTime # undefined =>
               Len(r.schedule) >= 3 /\ r.schedule[3] = chatSchedules[c].endTime

\* report r shows the fields of a record that has both start time and duration,
\* and shows any other record, or none, as not configured
SpecReportsCompleteSchedule(r, c) ==
    IF SpecScheduleComplete(c)
    THEN /\ Len(r.schedule) = 3
         /\ r.schedule[1] = chatSchedules[c].startTime
         /\ r.schedule[2] = chatSchedules[c].deleteDuration
         /\ r.schedule[3] = IF SpecEndSet(c) THEN chatSchedules[c].endTime
                            ELSE <<"Not set (runs indefinitely or until /scheduleoff)">>
    ELSE r.schedule = << <<"Not configured or OFF.">> >>

\* the step just taken handled a /status command
StatusStep == handled' # NoUpdate /\ HandledUpdate.cmd = "status"

\* C25 as stated: /status changes no general timer, schedule record or
\* whitelist, and its reply shows the stored general timer or the default, every
\* stored schedule field and the whitelist size.
C25_ReportsStoredConfiguration ==
    [][StatusStep =>
          /\ config' = config
          /\ SpecAdmin(HandledAuth) => report' # NoReport
          /\ report' # NoReport =>
                /\ SpecReportsTimer(report'[1], HandledUpdate.chatId)
                /\ SpecReportsStoredFields(report'[1], HandledUpdate.chatId)
                /\ SpecReportsWhitelist(report'[1], HandledUpdate.chatId)]_vars

\* C25, amended: /status changes no general timer, schedule record or whitelist,
\* and its reply shows the stored general timer or the default, the whitelist
\* size, and the schedule's start time, duration and end time when the record
\* has both start time and duration; any other record is shown as not
\* configured.
C25_ReportsCompleteSchedule ==
    [][StatusStep =>
          /\ config' = config
          /\ SpecAdmin(HandledAuth) => report' # NoReport
          /\ report' # NoReport =>
                /\ SpecReportsTimer(report'[1], HandledUpdate.chatId)
                /\ SpecReportsCompleteSchedule(report'[1], HandledUpdate.chatId)
                /\ SpecReportsWhitelist(report'[1], HandledUpdate.chatId)]_vars

\* a schedule from 22:00 with 5m is stored and one user is whitelisted; /status
\* was answered with the default general timer, the schedule and one user
C25_Witness ==
    /\ handled # NoUpdate
    /\ handled[1].update.cmd = "status"
    /\ report # NoReport
    /\ report[1].generalTimer = <<"Deletes after ", "1", "5", "m">>
    /\ Len(report[1].schedule) = 3
    /\ report[1].schedule[1] = <<"2", "2", ":", "0", "0">>
    /\ report[1].whitelisted = 1

(***************************************************************************)
(* Commands in flight together.                                            *)
(***************************************************************************)
\* the handlers of e and f, both of actors who pass the gate, were in flight
\* together: one of them ended while the other was waiting
SpecConcurrent(e, f) ==
    /\ SpecAdmin(e.auth) /\ SpecAdmin(f.auth)
    /\ e.update.chatId = f.update.chatId
    /\ (f.update \in e.beside \/ e.update \in f.beside)

\* a schedule record with a start time and no duration
SpecHalfWritten(c) ==
    /\ c \in DOMAIN chatSchedules
    /\ chatSchedules[c].startTime # undefined
    /\ chatSchedules[c].deleteDuration = undefined

\* C26: when a schedule command and a scheduleoff command for one chat, or two
\* whitelist commands, were in flight together and both handlers have ended, in
\* whichever order, the stored record holds the effect of both; and in no
\* state, hence at no media message, does a schedule record hold a start time
\* without a duration.
C26_AtomicUnderInterleaving ==
    /\ \A e \in ended, f \in ended :
          (e.update.cmd = "schedule" /\ f.update.cmd = "scheduleoff" /\ SpecConcurrent(e, f)) =>
             LET c == e.update.chatId
             IN  /\ c \in DOMAIN chatSchedules
                 /\ chatSchedules[c].startTime = e.update.args[1]
                 /\ chatSchedules[c].deleteDuration = e.update.args[2]
                 /\ chatSchedules[c].endTime = f.update.args[1]
    /\ \A e \in ended, f \in ended :
          (e.update.cmd = "whitelist_him" /\ f.update.cmd = "whitelist_him"
             /\ SpecConcurrent(e, f)) =>
             /\ SpecWhitelisted(e.update.chatId, e.update.replyTo)
             /\ SpecWhitelisted(e.update.chatId, f.update.replyTo)
    /\ \A c \in Chats : ~SpecHalfWritten(c)

\* /schedule and /scheduleoff were in flight together, /scheduleoff ended
\* first, and a media message was handled after both had ended
C26_Witness ==
    \E e \in ended, f \in ended :
        /\ e.update.cmd = "schedule"
        /\ f.update.cmd = "scheduleoff"
        /\ SpecConcurrent(e, f)
        /\ e.update \in f.beside
        /\ inflight = {}
        /\ msg # NoMsg
        /\ chatSchedules[e.update.chatId].endTime = <<"0", "8", ":", "0", "0">>
        /\ chatSchedules[e.update.chatId].startTime = <<"2", "2", ":", "0", "0">>

(***************************************************************************)
(* One chat's state and another's.                                         *)
(***************************************************************************)
\* what a store holds for chat b, if anything
SpecEntry(map, b) == IF b \in DOMAIN map THEN <<map[b]>> ELSE <<>>

\* this step leaves chat b's general timer, schedule and whitelist as they were
SpecChatUnchanged(b) ==
    /\ SpecEntry(chatTimers', b) = SpecEntry(chatTimers, b)
    /\ SpecEntry(chatSchedules', b) = SpecEntry(chatSchedules, b)
    /\ SpecEntry(chatWhitelists', b) = SpecEntry(chatWhitelists, b)

\* what a media message of user u with caption cap gets in chat c, from chat c's
\* whitelist, schedule and general timer, the caption and the clock
SpecOutcome(c, u, cap) ==
    IF SpecWhitelisted(c, u) THEN processed' = Append(processed, "whitelisted") /\ NothingArmed
    ELSE IF cap \in PositiveCaptions THEN ArmedWith(c, SpecCaptionMs(cap))
    ELSE CaptionlessOutcome(c)

\* C27: a command for one chat leaves the general timer, the schedule and the
\* whitelist of every other chat as they were, a media message changes those of
\* no chat, and what a media message gets is decided by its own chat's
\* configuration, its caption and the clock.
C27_PartitionedByChat ==
    [][/\ handled' # NoUpdate =>
             \A b \in TwoChats \ {HandledUpdate.chatId} : SpecChatUnchanged(b)
       /\ MediaStep =>
             /\ config' = config
             /\ SpecOutcome(msg'.chatId, msg'.userId, msg'.caption)]_vars

\* the general timer of chat 2 is off and chat 1 has none; a photo in chat 1
\* was armed for deletion after the default 15 minutes
C27_Witness ==
    /\ SpecGeneralTimerOff(2)
    /\ SpecGeneralTimerUnset(1)
    /\ JustArmed(1, 900000)

(***************************************************************************)
(* Armed deletions run to their end.                                       *)
(***************************************************************************)
\* C28: an armed deletion leaves the set of pending deletions only by its own
\* deletion call, and, time passing and due callbacks being run, every message
\* for which a deletion is armed eventually has exactly one deletion call issued
\* and no deletion pending.
C28_ArmedEventuallyFires ==
    /\ [][timers' # timers =>
             \A t \in timers \ timers' :
                /\ now >= t.fireAt
                /\ deleteCalls' = Append(deleteCalls, [chatId |-> t.chatId, messageId |-> t.messageId])]_vars
    /\ \A i \in 1..MaxUpdates :
          (PendingFor(i) # {}) ~> (PendingFor(i) = {} /\ CallsFor(i) = 1)

\* two messages were armed with different delays, the general timer was turned
\* off afterwards, and both deletion calls have been issued
C28_Witness ==
    \E c \in Chats :
        /\ SpecGeneralTimerOff(c)
        /\ Len(processed) = 2
        /\ processed[1] = "armed" /\ processed[2] = "armed"
        /\ timers = {}
        /\ CallsFor(1) = 1 /\ CallsFor(2) = 1
        /\ Len(deleteCalls) = 2

(***************************************************************************)
(* How a failed deletion is logged.                                        *)
(***************************************************************************)
\* the failures that say the message is gone or may not be deleted
SpecBenignFailures == {"message to delete not found", "message can't be deleted"}

\* the console levels below warning
SpecLowSeverity == {"log", "info", "debug"}

\* C29: a deletion call that fails with "not found" or with "cannot be deleted"
\* is logged at low severity, for both kinds of failure, and not at the level
\* at which a failure without a response of the platform is logged.
C29_BenignFailureLoggedLow ==
    [][logged'.description \in SpecBenignFailures =>
          /\ logged'.level \in SpecLowSeverity
          /\ logged'.level # deleteLog("network").level]_vars

\* the deletion call of message 1 was rejected with "message can't be deleted"
\* and the callback has logged it with console.error
C29_Witness ==
    /\ logged.description = "message can't be deleted"
    /\ logged.level = "error"
    /\ CallsFor(1) = 1
    /\ PendingFor(1) = {}

(***************************************************************************)
(* The order of schedule and scheduleoff.                                  *)
(***************************************************************************)
\* the record that schedule with arguments v and scheduleoff with argument w
\* leave, whichever comes first and whatever was stored before
SpecScheduleRecord(v, w) ==
    [startTime |-> v.start, endTime |-> w.end, deleteDuration |-> v.duration,
     timezone |-> <<"G", "M", "T", "+", "6">>]

\* the command handled before this step and the one handled by it are p and q,
\* both of an actor who passes the gate
SpecOneAfterTheOther(p, q) ==
    /\ handled # NoUpdate /\ handled' # NoUpdate
    /\ handled[1].update.cmd = p /\ HandledUpdate.cmd = q
    /\ handled[1].update.chatId = HandledUpdate.chatId
    /\ SpecAdmin(handled[1].auth) /\ SpecAdmin(HandledAuth)

\* C30: from any stored record, an authorized valid schedule(start, duration)
\* followed by scheduleoff(end) and the same scheduleoff(end) followed by the
\* same schedule(start, duration) leave the same record: start time, end time,
\* duration and offset are those of the two commands.
C30_ScheduleCommandsCommute ==
    [][\A v \in ValidScheduleArgs, w \in ValidScheduleOffArgs :
          /\ (SpecOneAfterTheOther("schedule", "scheduleoff")
                /\ handled[1].update.args = v.args /\ HandledUpdate.args = <<w.arg>>)
             => chatSchedules'[HandledUpdate.chatId] = SpecScheduleRecord(v, w)
          /\ (SpecOneAfterTheOther("scheduleoff", "schedule")
                /\ handled[1].update.args = <<w.arg>> /\ HandledUpdate.args = v.args)
             => chatSchedules'[HandledUpdate.chatId] = SpecScheduleRecord(v, w)]_vars

\* three commands were handled, /scheduleoff 17:00 among them and an authorized
\* /schedule 09:00 5M the last: the record holds 09:00, 17:00 and 5m
C30_Witness ==
    \E c \in Chats :
        /\ updateCount = 3
        /\ handled # NoUpdate
        /\ handled[1].update.cmd = "schedule"
        /\ handled[1].update.args = << <<"0", "9", ":", "0", "0">>, <<"5", "M">> >>
        /\ SpecAdmin(handled[1].auth)
        /\ chatSchedules[c] = [startTime |-> <<"0", "9", ":", "0", "0">>,
                               endTime |-> <<"1", "7", ":", "0", "0">>,
                               deleteDuration |-> <<"5", "m">>,
                               timezone |-> <<"G", "M", "T", "+", "6">>]

(***************************************************************************)
(* Failures and the running process.                                       *)
(***************************************************************************)
\* the step just taken made a deletion call that failed
SpecDeletionFailed == logged'.level = "error"

\* the step just taken handled a command during which a query of the
\* authorization check failed: the chat look-up, the membership query, or the
\* chat look-up repeated after a refusal
SpecAuthorizationFailed ==
    /\ handled' # NoUpdate
    /\ \/ HandledAuth.chat = "error"
       \/ (HandledAuth.chat = "group" /\ HandledAuth.member = "error")
       \/ (HandledAuth.chat = "group" /\ ~SpecAdmin(HandledAuth) /\ HandledAuth.chatAgain = "error")

\* C31: after a deletion call or an authorization query has failed, with any
\* kind of failure, the process is running and the configuration is what it
\* was, so that later commands and media messages are handled as if the failure
\* had not happened.
C31_FailureNeverStops ==
    [][(SpecDeletionFailed \/ SpecAuthorizationFailed) =>
          /\ running'
          /\ config' = config]_vars

\* what holds: a failed deletion call and a failed membership query leave the
\* process running and the configuration as it was
C31_CaughtFailuresGoOn ==
    [][(SpecDeletionFailed
          \/ (SpecAuthorizationFailed /\ HandledAuth.chat = "group"
                /\ HandledAuth.chatAgain # "error")) =>
          /\ running'
          /\ config' = config]_vars

\* a deletion is armed and pending; the chat look-up of a /settimer command
\* failed and the process has ended
C31_Witness ==
    /\ ~running
    /\ handled # NoUpdate
    /\ handled[1].update.cmd = "settimer"
    /\ handled[1].auth.chat = "error"
    /\ timers # {}

(***************************************************************************)
(* What changes the general timer.                                         *)
(***************************************************************************)
\* C32: the general timer of a chat changes only in the step of a settimer
\* command for that chat, of an actor who passes the gate and with a valid
\* argument, and then to what the argument says; every other command, media
\* message, clock step and deletion call leaves it as it is, and a message
\* without caption annotation outside an active schedule gets the stored value.
C32_OnlySetTimerChangesTimer ==
    /\ [][chatTimers' # chatTimers =>
             /\ handled' # NoUpdate
             /\ HandledUpdate.cmd = "settimer"
             /\ SpecAdmin(HandledAuth)
             /\ \E v \in ValidSetTimerArgs :
                   /\ HandledUpdate.args = <<v.arg>>
                   /\ HandledUpdate.chatId \in DOMAIN chatTimers'
                   /\ chatTimers'[HandledUpdate.chatId] = v.stored
             /\ \A b \in Chats \ {HandledUpdate.chatId} :
                   SpecEntry(chatTimers', b) = SpecEntry(chatTimers, b)]_vars
    /\ [][MediaStep =>
             LET c == msg'.chatId
             IN  (/\ msg'.caption \in NoTokenCaptions
                  /\ ~SpecWhitelisted(c, msg'.userId)
                  /\ ~SpecWindowActive(c)
                  /\ ~SpecGeneralTimerUnset(c))
                 => OutsideWindowOutcome(c)]_vars

\* the general timer was set to 1h, a user was whitelisted afterwards, and a
\* photo of another user was armed for deletion after one hour
C32_Witness ==
    \E c \in Chats :
        /\ updateCount = 3
        /\ c \in DOMAIN chatTimers
        /\ chatTimers[c] = <<"1", "h">>
        /\ c \in DOMAIN chatWhitelists
        /\ JustArmed(c, 3600000)

(***************************************************************************)
(* Stored durations.                                                       *)
(***************************************************************************)
\* texts that the Duration Codec reads as zero milliseconds
SpecZeroDurations == {<<"0", "s">>, <<"0", "M">>, <<"0", "0", "h">>}

\* text is a duration of more than zero milliseconds
SpecPositiveDuration(text) == IsSpecDuration(text) /\ SpecMs(text) > 0

\* C33: every stored general timer is "off" or a duration of more than 0 ms and
\* every stored schedule duration is a duration of more than 0 ms; a settimer or
\* schedule command whose duration is zero-valued ("0s") is rejected as invalid
\* and stores nothing, although the Duration Codec parses its duration to 0.
C33_StoredDurationsPositive ==
    /\ [](\A c \in Chats :
             /\ c \in DOMAIN chatTimers =>
                   (chatTimers[c] = <<"o", "f", "f">> \/ SpecPositiveDuration(chatTimers[c]))
             /\ (c \in DOMAIN chatSchedules /\ chatSchedules[c].deleteDuration # undefined) =>
                   SpecPositiveDuration(chatSchedules[c].deleteDuration))
    /\ [][(/\ handled' # NoUpdate
           /\ SpecAdmin(HandledAuth)
           /\ HandledUpdate.args[Len(HandledUpdate.args)] \in SpecZeroDurations) =>
             /\ sent' \in SpecRejections
             /\ config' = config
             /\ parseDurationToMs(toLowerCase(HandledUpdate.args[Len(HandledUpdate.args)])) = Ms(0)]_vars

\* the general timer is 1h and the schedule's duration 5m; an administrator's
\* /settimer 0s was just rejected and both are as they were
C33_Witness ==
    \E c \in Chats :
        /\ handled # NoUpdate
        /\ handled[1].update.cmd = "settimer"
        /\ handled[1].update.args = << <<"0", "s">> >>
        /\ SpecAdmin(handled[1].auth)
        /\ sent = "invalid duration format"
        /\ chatTimers = (c :> <<"1", "h">>)
        /\ c \in DOMAIN chatSchedules
        /\ chatSchedules[c].deleteDuration = <<"5", "m">>

(***************************************************************************)
(* Stored times.                                                           *)
(***************************************************************************)
\* text is two digits, a colon and two digits
SpecTimeShape(text) ==
    /\ Len(text) = 5
    /\ text[3] = ":"
    /\ \A i \in {1, 2, 4, 5} : text[i] \in DOMAIN SpecDigitValue

SpecHours(text) == 10 * SpecDigitValue[text[1]] + SpecDigitValue[text[2]]
SpecMinutes(text) == 10 * SpecDigitValue[text[4]] + SpecDigitValue[text[5]]

\* text denotes a minute of the day: hours 00..23 and minutes 00..59
SpecMinuteOfDay(text) ==
    /\ SpecTimeShape(text)
    /\ SpecHours(text) \in 0..23
    /\ SpecMinutes(text) \in 0..59
    /\ 60 * SpecHours(text) + SpecMinutes(text) \in 0..1439

\* C34: every start time and end time stored in a schedule denotes a minute of
\* the day (hours 00..23, minutes 00..59); "24:00" and "99:99" are rejected and
\* never stored.
C34_StoredTimesInRange ==
    \A c \in Chats :
        c \in DOMAIN chatSchedules =>
            /\ chatSchedules[c].startTime # undefined => SpecMinuteOfDay(chatSchedules[c].startTime)
            /\ chatSchedules[c].endTime # undefined => SpecMinuteOfDay(chatSchedules[c].endTime)

\* what holds: every stored start time and end time is two digits, a colon and
\* two digits
C34_StoredTimesShaped ==
    \A c \in Chats :
        c \in DOMAIN chatSchedules =>
            /\ chatSchedules[c].startTime # undefined => SpecTimeShape(chatSchedules[c].startTime)
            /\ chatSchedules[c].endTime # undefined => SpecTimeShape(chatSchedules[c].endTime)

\* an administrator's /schedule 24:00 5m was confirmed and 24:00 is the stored
\* start time; the stored end time is 99:99
C34_Witness ==
    \E c \in Chats :
        /\ handled # NoUpdate
        /\ handled[1].update.cmd = "schedule"
        /\ sent = "timer scheduled"
        /\ c \in DOMAIN chatSchedules
        /\ chatSchedules[c].startTime = <<"2", "4", ":", "0", "0">>
        /\ chatSchedules[c].endTime = <<"9", "9", ":", "9", "9">>

(***************************************************************************)
(* Captions with several duration tokens.                                  *)
(***************************************************************************)
\* the standalone duration tokens of a caption, in ms, from left to right
TokensTable ==
    { [caption |-> undefined, tokens |-> <<>>],
      [caption |-> <<"0", "s", " ", "3", "0", "s">>, tokens |-> <<0, 30000>>],
      [caption |-> <<"1", "0", "s", " ", "3", "0", "S">>, tokens |-> <<10000, 30000>>],
      [caption |-> <<"3", "0", "s", ",", "0", "h">>, tokens |-> <<30000, 0>>],
      [caption |-> <<"x", "1", "m", " ", "0", "M", " ", "2", "m">>, tokens |-> <<0, 120000>>] }

SpecTokens(cap) == (CHOOSE r \in TokensTable : r.caption = cap).tokens
SpecPositiveTokens(cap) == {SpecTokens(cap)[i] : i \in DOMAIN SpecTokens(cap)} \ {0}
SpecFirstPositive == {cap \in TokensCaptions : SpecTokens(cap) # <<>> /\ SpecTokens(cap)[1] > 0}
SpecFirstZero == {cap \in TokensCaptions : SpecTokens(cap) # <<>> /\ SpecTokens(cap)[1] = 0}

====
